---------------------------- MODULE Spec2Model ----------------------------
(***************************************************************************)
(* A model of the transformation core of claude-code-router:               *)
(*   - the streaming response transformer of the Antigravity transformer   *)
(*     (transformStreamResponse), as a state machine over the upstream's   *)
(*     SSE data lines;                                                     *)
(*   - the token managers (getFreshAccessToken) of the Antigravity         *)
(*     transformer and of the two Gemini interceptor plugins, with the     *)
(*     credential file they share with the web UI's authorization flow.    *)
(* Specifications: StreamSpec, ConsumerSpec and ChunkSpec (the stream       *)
(* transformer, its consumer, its line buffering), TokenSpec and StoreSpec *)
(* (the token managers), AuthSpec (the authorization flow), CleanSpec and  *)
(* ContentsSpec (the request's tools and messages), RouteSpec (router and  *)
(* transformer on one request), SearchSpec (the web-search transformer).   *)
(***************************************************************************)
EXTENDS Integers, Sequences, FiniteSets, TLC

VARIABLES
    \* ---- transformStreamResponse: the closure's state variables
    messageStartSent,
    thinkingBlockStarted,
    thinkingBlockIndex,
    textBlockStarted,
    textBlockIndex,
    currentBlockIndex,
    signatureSent,
    hasThinkingContent,
    lastUsageMetadata,
    webSearchResultsSent,
    \* ---- the stream's surroundings
    out,        \* the events enqueued on the output controller, in order
    inp,        \* the data lines read from the upstream body so far
    pc,         \* "reading", "closed" (controller.close), "errored" (controller.error)
    cancelled,  \* the consumer has cancelled the output stream
    taken,      \* how many of the events the consumer has read
    buffer,     \* the incomplete line held back from the chunks read so far
    responseBody,  \* the bytes of response.body
    bytesRead,  \* how many of them reader.read() has delivered
    \* ---- the token managers and what they share
    plugin,             \* the plugin whose getFreshAccessToken serves the requests
    store,              \* the credential file google_credentials.json
    now,                \* Date.now(), in minutes
    cachedAccessToken,  \* the interceptors' module-level cache
    tokenExpiryTime,
    call,               \* the transformRequestIn call of each request
    \* ---- the interactive authorization flow
    auth,               \* the flow's listener, timer, promise and locals
    \* ---- transformRequestIn: one tool and the messages of a request
    input_schema,         \* tool.input_schema
    cleanedParams,        \* cleanParameters(tool.input_schema)
    cleanedAgain,         \* cleanParameters applied to that result
    functionDeclaration,  \* the declaration built for the tool
    messages,             \* request.messages
    contents,             \* the contents built from them
    \* ---- one request on its way through router and transformer
    options,    \* this.options of the AntigravityTransformer
    req,        \* req.body, the request the client sent
    provider,   \* the provider argument of transformRequestIn
    context,    \* the context argument of transformRequestIn
    route,      \* what the router returned, "<provider>,<model>"
    envelope,   \* what transformRequestIn returned
    upstream,   \* the upstream's response
    reply,      \* what transformResponseOut returned, per body encoding
    \* ---- the web-search transformer's transformResponseOut
    search      \* the response, the drain loop's locals and the events enqueued

streamVars == <<messageStartSent, thinkingBlockStarted, thinkingBlockIndex,
                textBlockStarted, textBlockIndex, currentBlockIndex,
                signatureSent, hasThinkingContent, lastUsageMetadata,
                webSearchResultsSent, out, inp, pc, cancelled, taken,
                buffer, responseBody, bytesRead>>

tokenVars == <<plugin, store, now, cachedAccessToken, tokenExpiryTime, call>>

authVars == <<auth>>

requestVars == <<input_schema, cleanedParams, cleanedAgain,
                 functionDeclaration, messages, contents>>

routeVars == <<options, req, provider, context, route, envelope, upstream, reply>>

searchVars == <<search>>

\* What the stream side, the token side, the authorization flow, the
\* request transformation and the request pipeline leave alone (the flow
\* writes the credential file, which is among the token side's variables).
besideStream == <<tokenVars, authVars, requestVars, routeVars, searchVars>>
besideToken == <<streamVars, authVars, requestVars, routeVars, searchVars>>
besideAuth == <<streamVars, requestVars, routeVars, searchVars>>
besideRequest == <<streamVars, tokenVars, authVars, routeVars, searchVars>>
besideRoute == <<streamVars, tokenVars, authVars, requestVars, searchVars>>
besideSearch == <<streamVars, tokenVars, authVars, requestVars, routeVars>>

vars == <<streamVars, tokenVars, authVars, requestVars, routeVars, searchVars>>

(***************************************************************************)
(* Bounds                                                                  *)
(***************************************************************************)
MaxLines == 3      \* data lines the upstream delivers before it ends
NumCallers == 2    \* requests, each one call of transformRequestIn
MaxTime == 1       \* minutes the clock advances
MaxCallbacks == 2  \* requests the callback listener handles in one flow
MaxDepth == 2      \* nesting depth of the tool schemas
MaxMessages == 2   \* messages of a request

(***************************************************************************)
(* Upstream input: parts, candidates, data lines                           *)
(***************************************************************************)
\* A part of candidate.content.parts.  "" stands for an absent field.
Part(text, thought, sig, fc) ==
    [text |-> text, thought |-> thought, thoughtSignature |-> sig, functionCall |-> fc]

ThoughtA == Part("a", TRUE, "", "")        \* {text: "a", thought: true}
SigPart  == Part("", FALSE, "sig1", "")    \* {thoughtSignature: "sig1"}
TextB    == Part("b", FALSE, "", "")       \* {text: "b"}
CallF    == Part("", FALSE, "", "f")       \* {functionCall: {name: "f"}}

\* The parts lists the upstream's candidates carry.
PartLists == { <<>>, <<ThoughtA>>, <<SigPart>>, <<TextB>>, <<CallF>>,
               <<TextB, ThoughtA>>, <<ThoughtA, SigPart>> }

\* A data line: its JSON payload does not parse ("malformed"), parses to an
\* object without candidates[0] ("nocandidate"), or carries a candidate.
\* groundingChunks is the length of candidate.groundingMetadata.groundingChunks,
\* usageMetadata is 0 when the field is absent.
Line(kind, parts, g, fin, usage) ==
    [kind |-> kind, parts |-> parts, groundingChunks |-> g,
     finishReason |-> fin, usageMetadata |-> usage]

\* Every parts list with and without finishReason; grounding chunks on a
\* line without parts and on a line with text; one line with usageMetadata.
CandidateLines ==
    { Line("candidate", p, 0, f, 0) : p \in PartLists, f \in BOOLEAN }
    \cup { Line("candidate", p, 1, f, 0) : p \in { <<>>, <<TextB>> }, f \in BOOLEAN }
    \cup { Line("candidate", <<>>, 0, FALSE, 1) }

Lines == CandidateLines
         \cup { Line("malformed", <<>>, 0, FALSE, 0),
                Line("nocandidate", <<>>, 0, FALSE, 0) }

(***************************************************************************)
(* Output events                                                           *)
(***************************************************************************)
\* One SSE event: its type, the block index (-1 when it has none), the block
\* or delta type, and the text it carries.
Ev(type, index, kind, val) ==
    [type |-> type, index |-> index, kind |-> kind, val |-> val]

MessageStart      == Ev("message_start", -1, "", "")
MessageDelta(u)   == Ev("message_delta", -1, "end_turn", IF u = 0 THEN "0" ELSE "u")
MessageStop       == Ev("message_stop", -1, "", "")
BlockStart(i, t)  == Ev("content_block_start", i, t, "")
BlockDelta(i, t, v) == Ev("content_block_delta", i, t, v)
BlockStop(i)      == Ev("content_block_stop", i, "", "")

(***************************************************************************)
(* The closure's state as one record, so that a line's processing is a     *)
(* function from state to state.                                           *)
(***************************************************************************)
StreamState ==
    [messageStartSent |-> messageStartSent,
     thinkingBlockStarted |-> thinkingBlockStarted,
     thinkingBlockIndex |-> thinkingBlockIndex,
     textBlockStarted |-> textBlockStarted,
     textBlockIndex |-> textBlockIndex,
     currentBlockIndex |-> currentBlockIndex,
     signatureSent |-> signatureSent,
     hasThinkingContent |-> hasThinkingContent,
     lastUsageMetadata |-> lastUsageMetadata,
     webSearchResultsSent |-> webSearchResultsSent,
     out |-> out,
     cancelled |-> cancelled,
     frozen |-> <<>>]


\* controller.enqueue(...).  On a stream the consumer has cancelled, enqueue
\* throws: what the handler did up to the first such call stays done (kept
\* in frozen), what follows it is skipped.
sendEvent(s, ev) ==
    IF s.cancelled
    THEN IF s.frozen = <<>> THEN [s EXCEPT !.frozen = <<s>>] ELSE s
    ELSE [s EXCEPT !.out = Append(@, ev)]

\* The closure's state where a catch block finds it.
Caught(s) == IF s.frozen # <<>> THEN s.frozen[1] ELSE s


(***************************************************************************)
(* Credentials, clock and token endpoint                                   *)
(***************************************************************************)
ExpiryThreshold == 5     \* 5 * 60 * 1000 ms, in minutes

Plugins == { "antigravity", "interceptor", "interceptorLib" }
Callers == 1..NumCallers
AccessTokens == { "t1", "t2" }      \* access tokens the token endpoint issues
RefreshTokens == { "r1" }           \* refresh tokens the token endpoint issues
ClientConfigs == { "c1" }           \* client_id / client_secret / redirect_uri
ExpiresIn == { 5, 6 }               \* expires_in, in minutes

\* The credential file.  "" and 0 stand for absent fields; exists = FALSE
\* for no file (readCredentials / loadCredentials return null).
Credentials(ex, cl, rt, at, te, ed) ==
    [exists |-> ex, client |-> cl, refresh_token |-> rt, access_token |-> at,
     token_expiry |-> te, expiry_date |-> ed]

NoCredentials == Credentials(FALSE, "", "", "", 0, 0)

\* What the token endpoint answers to a refresh_token grant: a token, an
\* invalid_grant error, another failure, or a body with neither token nor error.
RefreshResponses ==
    { [kind |-> "ok", access_token |-> t, expires_in |-> e] :
          t \in AccessTokens, e \in ExpiresIn }
    \cup { [kind |-> k, access_token |-> "", expires_in |-> 0] :
          k \in { "invalid_grant", "error", "empty" } }

\* A caller outside any call.
\* pc: "idle", "refreshing" (a refresh POST is in flight), "login" (it awaits
\* runLoginFlow), "done"; credentials, now: the function's locals; path: which
\* runLoginFlow call it awaits; outcome, token: how transformRequestIn ended.
IdleCall ==
    [pc |-> "idle", credentials |-> NoCredentials, now |-> 0, path |-> "",
     outcome |-> "none", token |-> ""]

\* The token side at rest: what the stream specification holds it at.
TokenIdle ==
    /\ plugin = "antigravity"
    /\ store = NoCredentials
    /\ now = 0
    /\ cachedAccessToken = ""
    /\ tokenExpiryTime = 0
    /\ call = [c \in Callers |-> IdleCall]

(***************************************************************************)
(* The interactive authorization flow: input domain and state              *)
(***************************************************************************)
\* A request to the callback listener: whether its path is the redirect
\* path, and whether its query carries `error` and `code`.
Queries == [path : BOOLEAN, error : BOOLEAN, code : BOOLEAN]

NoQuery == [path |-> FALSE, error |-> FALSE, code |-> FALSE]

\* What the token endpoint answers to an authorization_code grant: tokens
\* (with or without a refresh token), a body with `error`, or no usable
\* answer at all (network error, unparsable body).
ExchangeResponses ==
    { [kind |-> "ok", refresh_token |-> r, access_token |-> t, expires_in |-> e] :
          r \in RefreshTokens \cup { "" }, t \in AccessTokens, e \in ExpiresIn }
    \cup { [kind |-> k, refresh_token |-> "", access_token |-> "", expires_in |-> 0] :
          k \in { "error", "throw" } }

NoTokens == [kind |-> "none", refresh_token |-> "", access_token |-> "", expires_in |-> 0]

\* kind: "none" (no flow yet), "server" (GET /api/google-auth/start),
\* "cli" (runLoginFlow); listener: "none", "starting" (listen() called),
\* "open", "closed", "failed" (the listen error); serverClosed: the server
\* flow's flag; timer: "none", "pending", "cleared", "fired"; result, error:
\* how the flow's promise settled ("none" while pending); exchanges: token
\* exchanges in flight; requests: requests the listener has handled; query:
\* the last of them; tokens: the last answer of the token endpoint;
\* savedCreds: the client configuration the flow read when it started.
NoFlow ==
    [kind |-> "none", listener |-> "none", serverClosed |-> FALSE,
     timer |-> "none", result |-> "none", error |-> "", exchanges |-> 0,
     requests |-> 0, query |-> NoQuery, tokens |-> NoTokens, savedCreds |-> ""]

AuthIdle == auth = NoFlow

\* No web-search response is being transformed.
SearchIdle == search = <<>>

(***************************************************************************)
(* JSON values                                                             *)
(***************************************************************************)
\* A JSON value: t is its kind ("undefined", "string", "object", "array"),
\* s the characters of a string, kids the entries of an object in
\* Object.entries order, or the elements of an array with k = "".
Undefined == [t |-> "undefined", s |-> "", kids |-> <<>>]
Str(s) == [t |-> "string", s |-> s, kids |-> <<>>]
Entry_(k, v) == [k |-> k, v |-> v]
Obj(entries) == [t |-> "object", s |-> "", kids |-> entries]
Arr(elements) ==
    [t |-> "array", s |-> "",
     kids |-> [i \in 1..Len(elements) |-> Entry_("", elements[i])]]

\* typeof v === 'object' for the values above (null is not among them).
IsObjectLike(v) == v.t \in {"object", "array"}

\* Object.keys(v).length
NumKeys(v) == Len(v.kids)

\* Whether an object has the key, and the key's value.
HasKey(v, key) == v.t = "object" /\ \E i \in 1..Len(v.kids) : v.kids[i].k = key

Get(v, key) ==
    IF HasKey(v, key)
    THEN v.kids[CHOOSE i \in 1..Len(v.kids) : v.kids[i].k = key].v
    ELSE Undefined

\* JavaScript truthiness of the values above.
Truthy(v) == IsObjectLike(v) \/ (v.t = "string" /\ v.s # "")

\* The request side at rest.
RequestIdle ==
    /\ input_schema = Undefined
    /\ cleanedParams = Undefined
    /\ cleanedAgain = Undefined
    /\ functionDeclaration = Undefined
    /\ messages = <<>>
    /\ contents = <<>>

(***************************************************************************)
(* The request pipeline: router, transformRequestIn, transformResponseOut  *)
(***************************************************************************)
\* Model names, character by character, so that toLowerCase and includes
\* work on them as they do on the strings.
ModelName ==
   [ opus45 |-> \* 'claude-opus-4-5-20251101'
        <<"c","l","a","u","d","e","-","o","p","u","s","-","4","-","5","-","2","0","2","5","1","1","0","1">>,
     opus4 |-> \* 'claude-opus-4-20250514'
        <<"c","l","a","u","d","e","-","o","p","u","s","-","4","-","2","0","2","5","0","5","1","4">>,
     sonnet45 |-> \* 'claude-sonnet-4-5-20250514'
        <<"c","l","a","u","d","e","-","s","o","n","n","e","t","-","4","-","5","-","2","0","2","5","0","5","1","4">>,
     sonnet4 |-> \* 'claude-sonnet-4-20250514'
        <<"c","l","a","u","d","e","-","s","o","n","n","e","t","-","4","-","2","0","2","5","0","5","1","4">>,
     haiku45 |-> \* 'claude-haiku-4-5-20251001'
        <<"c","l","a","u","d","e","-","h","a","i","k","u","-","4","-","5","-","2","0","2","5","1","0","0","1">>,
     haiku35 |-> \* 'claude-3-5-haiku-20241022'
        <<"c","l","a","u","d","e","-","3","-","5","-","h","a","i","k","u","-","2","0","2","4","1","0","2","2">>,
     opusThinking |-> \* 'claude-opus-4-5-thinking'
        <<"c","l","a","u","d","e","-","o","p","u","s","-","4","-","5","-","t","h","i","n","k","i","n","g">>,
     sonnetThinking |-> \* 'claude-sonnet-4-5-thinking'
        <<"c","l","a","u","d","e","-","s","o","n","n","e","t","-","4","-","5","-","t","h","i","n","k","i","n","g">>,
     gemini3 |-> \* 'gemini3-pro-high'
        <<"g","e","m","i","n","i","3","-","p","r","o","-","h","i","g","h">>,
     flash |-> \* 'gemini-2.5-flash'
        <<"g","e","m","i","n","i","-","2",".","5","-","f","l","a","s","h">>,
     configured |-> \* 'my-opus'
        <<"m","y","-","o","p","u","s">>,
     upperOpus |-> \* 'OPUS'
        <<"O","P","U","S">>,
     haikuOpus |-> \* 'haiku-opus'
        <<"h","a","i","k","u","-","o","p","u","s">>,
     gpt |-> \* 'gpt-4'
        <<"g","p","t","-","4">>,
     geminiPro |-> \* 'gemini-pro'
        <<"g","e","m","i","n","i","-","p","r","o">>,
     none |-> \* '' (also a name that is absent)
        <<>>,
     opus |-> <<"o","p","u","s">>,
     haiku |-> <<"h","a","i","k","u">>,
     sonnet |-> <<"s","o","n","n","e","t">> ]

\* defaultModelMapping of the constructor: Claude Code model -> Antigravity model.
defaultModelMapping ==
    (ModelName.opus45 :> ModelName.opusThinking)
    @@ (ModelName.opus4 :> ModelName.opusThinking)
    @@ (ModelName.sonnet45 :> ModelName.sonnetThinking)
    @@ (ModelName.sonnet4 :> ModelName.sonnetThinking)
    @@ (ModelName.haiku45 :> ModelName.gemini3)
    @@ (ModelName.haiku35 :> ModelName.gemini3)

\* constructor(options): this.options.  `...options` comes last in the
\* literal, so a modelMapping that is given replaces the merged table.
AntigravityTransformer(given) ==
    [project |-> IF given.project # "" THEN given.project ELSE "default-project",
     userAgent |-> "antigravity",
     requestType |-> "agent",
     defaultModel |-> ModelName.sonnet45,
     modelMapping |-> IF DOMAIN given.modelMapping # {}
                      THEN given.modelMapping
                      ELSE defaultModelMapping]

NoRoute == [provider |-> "", model |-> ModelName.none]

NoEnvelope ==
    [state |-> "none",
     body |-> [project |-> "", requestId |-> "",
               request |-> [contents |-> <<>>, sessionId |-> ""],
               model |-> ModelName.none, userAgent |-> "", requestType |-> ""],
     authorization |-> "",
     requestModel |-> ModelName.none]

NoResponse == [status |-> 0, contentType |-> "", data |-> [candidates |-> <<>>, usageMetadata |-> 0, error |-> ""]]

\* The two encodings of a payload in a body: the bare object, and the
\* object wrapped as {response: {...}}.
Encodings == { "bare", "wrapped" }

NoReply ==
    [state |-> "none", path |-> "", status |-> 0, bodyUsed |-> FALSE,
     model |-> ModelName.none, events |-> <<>>, content |-> <<>>]

\* No request is under way and no transformer is constructed.
RouteIdle ==
    /\ options = <<>>
    /\ req = <<>>
    /\ provider = <<>>
    /\ context = <<>>
    /\ route = <<>>
    /\ envelope = <<>>
    /\ upstream = <<>>
    /\ reply = <<>>

(***************************************************************************)
(* transformStreamResponse: the handling of one data line                  *)
(***************************************************************************)
\* currentBlockIndex++; thinkingBlockIndex = currentBlockIndex;
\* content_block_start(thinking); thinkingBlockStarted = true
StartThinkingBlock(s) ==
    LET i == s.currentBlockIndex + 1
        s1 == sendEvent([s EXCEPT !.currentBlockIndex = i, !.thinkingBlockIndex = i],
                        BlockStart(i, "thinking"))
    IN  [s1 EXCEPT !.thinkingBlockStarted = TRUE]

\* The body of the loop over thinkingParts.
ThinkingPartStep(s, part) ==
    LET s1 == [s EXCEPT !.hasThinkingContent = TRUE]
        s2 == IF ~s1.thinkingBlockStarted THEN StartThinkingBlock(s1) ELSE s1
    IN  sendEvent(s2, BlockDelta(s2.thinkingBlockIndex, "thinking_delta", part.text))

RECURSIVE ProcessThinkingParts(_, _)
ProcessThinkingParts(s, ps) ==
    IF ps = <<>> THEN s
    ELSE ProcessThinkingParts(ThinkingPartStep(s, Head(ps)), Tail(ps))

\* parts.filter(p => p.text && p.thought === true)
thinkingParts(parts) == SelectSeq(parts, LAMBDA p : p.text # "" /\ p.thought = TRUE)

\* parts.find(p => p.thoughtSignature)?.thoughtSignature   ("" when none)
FindSignature(parts) ==
    LET withSig == SelectSeq(parts, LAMBDA p : p.thoughtSignature # "")
    IN  IF withSig = <<>> THEN "" ELSE Head(withSig).thoughtSignature

\* HandleSignature with the close of the thinking block left out.
HandleSignatureNoStop(s, parts) ==
    LET signature == FindSignature(parts) IN
    IF signature # "" /\ ~s.signatureSent
    THEN LET s1 == IF ~s.thinkingBlockStarted THEN StartThinkingBlock(s) ELSE s
             s2 == sendEvent(s1, BlockDelta(s1.thinkingBlockIndex,
                                            "signature_delta", signature))
         IN  [s2 EXCEPT !.signatureSent = TRUE]
    ELSE s

\* if (signature && !signatureSent) { open if needed; signature_delta; stop }
HandleSignature(s, parts) ==
    LET signature == FindSignature(parts) IN
    IF signature # "" /\ ~s.signatureSent
    THEN LET s1 == IF ~s.thinkingBlockStarted THEN StartThinkingBlock(s) ELSE s
             s2 == sendEvent(s1, BlockDelta(s1.thinkingBlockIndex,
                                            "signature_delta", signature))
             s3 == sendEvent(s2, BlockStop(s2.thinkingBlockIndex))
         IN  [s3 EXCEPT !.signatureSent = TRUE, !.thinkingBlockStarted = FALSE]
    ELSE s

\* StartTextBlock with the increment of currentBlockIndex left out.
StartTextBlockSameIndex(s) ==
    LET i == s.currentBlockIndex
        s1 == sendEvent([s EXCEPT !.textBlockIndex = i], BlockStart(i, "text"))
    IN  [s1 EXCEPT !.textBlockStarted = TRUE]

\* currentBlockIndex++; textBlockIndex = currentBlockIndex;
\* content_block_start(text); textBlockStarted = true
StartTextBlock(s) ==
    LET i == s.currentBlockIndex + 1
        s1 == sendEvent([s EXCEPT !.currentBlockIndex = i, !.textBlockIndex = i],
                        BlockStart(i, "text"))
    IN  [s1 EXCEPT !.textBlockStarted = TRUE]

\* The body of the loop over textParts without the start of the text block.
TextPartStepNoStart(s, part) ==
    LET s1 == IF s.thinkingBlockStarted /\ ~s.signatureSent
              THEN [sendEvent(s, BlockStop(s.thinkingBlockIndex))
                        EXCEPT !.thinkingBlockStarted = FALSE]
              ELSE s
    IN  sendEvent(s1, BlockDelta(s1.textBlockIndex, "text_delta", part.text))

\* The body of the loop over textParts.
TextPartStep(s, part) ==
    LET s1 == IF s.thinkingBlockStarted /\ ~s.signatureSent
              THEN [sendEvent(s, BlockStop(s.thinkingBlockIndex))
                        EXCEPT !.thinkingBlockStarted = FALSE]
              ELSE s
        s2 == IF ~s1.textBlockStarted THEN StartTextBlock(s1) ELSE s1
    IN  sendEvent(s2, BlockDelta(s2.textBlockIndex, "text_delta", part.text))

RECURSIVE ProcessTextParts(_, _)
ProcessTextParts(s, ps) ==
    IF ps = <<>> THEN s
    ELSE ProcessTextParts(TextPartStep(s, Head(ps)), Tail(ps))

\* parts.filter(p => p.text && p.thought !== true)
textParts(parts) == SelectSeq(parts, LAMBDA p : p.text # "" /\ p.thought # TRUE)

\* The body of the loop over toolCallParts: a tool_use block, opened, given
\* its input as one input_json_delta, and closed.
ToolCallStep(s, part) ==
    LET i  == s.currentBlockIndex + 1
        s1 == sendEvent([s EXCEPT !.currentBlockIndex = i], BlockStart(i, "tool_use"))
        s2 == sendEvent(s1, BlockDelta(i, "input_json_delta", part.functionCall))
    IN  sendEvent(s2, BlockStop(i))

RECURSIVE ProcessToolCalls(_, _)
ProcessToolCalls(s, ps) ==
    IF ps = <<>> THEN s
    ELSE ProcessToolCalls(ToolCallStep(s, Head(ps)), Tail(ps))

\* parts.filter(p => p.functionCall)
toolCallParts(parts) == SelectSeq(parts, LAMBDA p : p.functionCall # "")

\* The groundingMetadata branch: close an open text block, then a
\* server_tool_use block and a web_search_tool_result block, each opened and
\* closed.  The branch reads webSearchResultsSent and never assigns it.
HandleGrounding(s, line) ==
    IF ~s.webSearchResultsSent /\ line.groundingChunks > 0
    THEN LET s1 == IF s.textBlockStarted
                   THEN [sendEvent(s, BlockStop(s.textBlockIndex))
                             EXCEPT !.textBlockStarted = FALSE]
                   ELSE s
             i  == s1.currentBlockIndex + 1
             s2 == sendEvent([s1 EXCEPT !.currentBlockIndex = i],
                             BlockStart(i, "server_tool_use"))
             s3 == sendEvent(s2, BlockStop(i))
             j  == s3.currentBlockIndex + 1
             s4 == sendEvent([s3 EXCEPT !.currentBlockIndex = j],
                             BlockStart(j, "web_search_tool_result"))
         IN  sendEvent(s4, BlockStop(j))
    ELSE s

\* if (candidate.finishReason) { close open blocks; message_delta; message_stop }
HandleFinishReason(s, line) ==
    IF line.finishReason
    THEN LET s1 == IF s.thinkingBlockStarted
                   THEN [sendEvent(s, BlockStop(s.thinkingBlockIndex))
                             EXCEPT !.thinkingBlockStarted = FALSE]
                   ELSE s
             s2 == IF s1.textBlockStarted
                   THEN [sendEvent(s1, BlockStop(s1.textBlockIndex))
                             EXCEPT !.textBlockStarted = FALSE]
                   ELSE s1
             s3 == sendEvent(s2, MessageDelta(s2.lastUsageMetadata))
         IN  sendEvent(s3, MessageStop)
    ELSE s

\* if (responseData.usageMetadata) lastUsageMetadata = responseData.usageMetadata
TrackUsage(s, line) ==
    IF line.usageMetadata # 0
    THEN [s EXCEPT !.lastUsageMetadata = line.usageMetadata]
    ELSE s

\* if (!messageStartSent) { message_start; messageStartSent = true }
SendMessageStart(s) ==
    IF ~s.messageStartSent
    THEN [sendEvent(s, MessageStart) EXCEPT !.messageStartSent = TRUE]
    ELSE s

\* ProcessLine with JSON.parse falling back to an empty chunk with an empty
\* candidate when the payload does not parse.
ProcessLineParseFallback(s, line) ==
    IF line.kind = "nocandidate" THEN s
    ELSE LET s1 == SendMessageStart(TrackUsage(s, line))
             s2 == ProcessThinkingParts(s1, thinkingParts(line.parts))
             s3 == HandleSignature(s2, line.parts)
             s4 == ProcessTextParts(s3, textParts(line.parts))
             s5 == ProcessToolCalls(s4, toolCallParts(line.parts))
             s6 == HandleGrounding(s5, line)
         IN  HandleFinishReason(s6, line)

\* The body of `for (const line of lines)` for one data line.  A payload that
\* does not parse throws inside the try and is caught and logged; a payload
\* without candidates[0] is skipped by `continue`.
ProcessLine(s, line) ==
    IF line.kind # "candidate" THEN s
    ELSE LET s1 == SendMessageStart(TrackUsage(s, line))
             s2 == ProcessThinkingParts(s1, thinkingParts(line.parts))
             s3 == HandleSignature(s2, line.parts)
             s4 == ProcessTextParts(s3, textParts(line.parts))
             s5 == ProcessToolCalls(s4, toolCallParts(line.parts))
             s6 == HandleGrounding(s5, line)
         IN  HandleFinishReason(s6, line)

\* CloseRemainingBlocks with the close of the text block left out.
CloseRemainingBlocksThinkingOnly(s) ==
    IF s.thinkingBlockStarted
    THEN sendEvent(s, BlockStop(s.thinkingBlockIndex)) ELSE s

\* After the read loop: "Close any remaining open blocks".
CloseRemainingBlocks(s) ==
    LET s1 == IF s.thinkingBlockStarted
              THEN sendEvent(s, BlockStop(s.thinkingBlockIndex)) ELSE s
    IN  IF s1.textBlockStarted
        THEN sendEvent(s1, BlockStop(s1.textBlockIndex)) ELSE s1

\* EnsureMessageClosed with the message_delta left out.
EnsureMessageClosedStopOnly(s) ==
    IF s.messageStartSent THEN sendEvent(s, MessageStop) ELSE s

\* After the read loop: "Ensure message is properly closed if not already".
EnsureMessageClosed(s) ==
    IF s.messageStartSent
    THEN sendEvent(sendEvent(s, MessageDelta(s.lastUsageMetadata)), MessageStop)
    ELSE s

(***************************************************************************)
(* StreamSpec: one response stream                                         *)
(***************************************************************************)
SetStreamState(s) ==
    /\ messageStartSent' = s.messageStartSent
    /\ thinkingBlockStarted' = s.thinkingBlockStarted
    /\ thinkingBlockIndex' = s.thinkingBlockIndex
    /\ textBlockStarted' = s.textBlockStarted
    /\ textBlockIndex' = s.textBlockIndex
    /\ currentBlockIndex' = s.currentBlockIndex
    /\ signatureSent' = s.signatureSent
    /\ hasThinkingContent' = s.hasThinkingContent
    /\ lastUsageMetadata' = s.lastUsageMetadata
    /\ webSearchResultsSent' = s.webSearchResultsSent
    /\ out' = s.out

\* The closure's variables as transformStreamResponse initialises them.
StreamIdle ==
    /\ messageStartSent = FALSE
    /\ thinkingBlockStarted = FALSE
    /\ thinkingBlockIndex = -1
    /\ textBlockStarted = FALSE
    /\ textBlockIndex = -1
    /\ currentBlockIndex = -1
    /\ signatureSent = FALSE
    /\ hasThinkingContent = FALSE
    /\ lastUsageMetadata = 0
    /\ webSearchResultsSent = FALSE
    /\ out = <<>>
    /\ inp = <<>>
    /\ pc = "reading"
    /\ cancelled = FALSE
    /\ taken = 0
    /\ buffer = <<>>
    /\ responseBody = <<>>
    /\ bytesRead = 0

StreamInit ==
    /\ StreamIdle
    /\ TokenIdle
    /\ AuthIdle
    /\ SearchIdle
    /\ RouteIdle
    /\ RequestIdle


\* reader.read() resolves with a chunk holding one complete data line.  What
\* the line's handling throws is caught and logged, and the loop goes on.
ReadLine ==
    /\ pc = "reading"
    /\ Len(inp) < MaxLines
    /\ \E line \in Lines :
          /\ SetStreamState(Caught(ProcessLine(StreamState, line)))
          /\ inp' = Append(inp, line)
    /\ pc' = pc
    /\ UNCHANGED <<cancelled, taken, buffer, responseBody, bytesRead>>
    /\ UNCHANGED besideStream

\* reader.read() resolves with done, the body having no more bytes: the
\* loop ends (what buffer still holds is never handled), the remaining blocks and
\* the message are closed, controller.close().  On a cancelled stream the
\* first enqueue, or else close, throws into the outer catch and its
\* controller.error(error).
ReadDone ==
    /\ pc = "reading"
    /\ bytesRead = Len(responseBody)
    /\ SetStreamState(Caught(EnsureMessageClosed(CloseRemainingBlocks(StreamState))))
    /\ pc' = IF cancelled THEN "errored" ELSE "closed"
    /\ inp' = inp
    /\ UNCHANGED <<cancelled, taken, buffer, responseBody, bytesRead>>
    /\ UNCHANGED besideStream

\* reader.read() rejects: the outer catch calls controller.error(error).
ReadError ==
    /\ pc = "reading"
    /\ pc' = "errored"
    /\ UNCHANGED <<messageStartSent, thinkingBlockStarted, thinkingBlockIndex,
                   textBlockStarted, textBlockIndex, currentBlockIndex,
                   signatureSent, hasThinkingContent, lastUsageMetadata,
                   webSearchResultsSent, out, inp, cancelled, taken,
                   buffer, responseBody, bytesRead>>
    /\ UNCHANGED besideStream

StreamNext == ReadLine \/ ReadDone \/ ReadError

StreamSpec == StreamInit /\ [][StreamNext]_vars

(***************************************************************************)
(* ConsumerSpec: the response stream and the client that reads it          *)
(***************************************************************************)
\* The consumer's reader takes the next enqueued event.
Take ==
    /\ ~cancelled
    /\ taken < Len(out)
    /\ taken' = taken + 1
    /\ UNCHANGED <<messageStartSent, thinkingBlockStarted, thinkingBlockIndex,
                   textBlockStarted, textBlockIndex, currentBlockIndex,
                   signatureSent, hasThinkingContent, lastUsageMetadata,
                   webSearchResultsSent, out, inp, pc, cancelled,
                   buffer, responseBody, bytesRead>>
    /\ UNCHANGED besideStream

\* The client goes away and the output stream is cancelled.  The underlying
\* source has start() only: no cancel() is there to be called.
Cancel ==
    /\ ~cancelled
    /\ pc = "reading"
    /\ cancelled' = TRUE
    /\ UNCHANGED <<messageStartSent, thinkingBlockStarted, thinkingBlockIndex,
                   textBlockStarted, textBlockIndex, currentBlockIndex,
                   signatureSent, hasThinkingContent, lastUsageMetadata,
                   webSearchResultsSent, out, inp, pc, taken,
                   buffer, responseBody, bytesRead>>
    /\ UNCHANGED besideStream

ConsumerNext == ReadLine \/ ReadDone \/ ReadError \/ Take \/ Cancel

ConsumerSpec == StreamInit /\ [][ConsumerNext]_vars


(***************************************************************************)
(* Properties of the stream transformer (checked under StreamSpec)         *)
(***************************************************************************)
\* The positions of `out` that hold an event of the given type.
Positions(type) == { k \in 1..Len(out) : out[k].type = type }

\* The positions that hold a content_block_start of the given block type.
StartsOf(kind) == { k \in Positions("content_block_start") : out[k].kind = kind }

\* The positions that hold the content_block_stop events of index i.
StopsOf(i) == { q \in Positions("content_block_stop") : out[q].index = i }

\* Whether some line read so far carried finishReason.
SawFinishReason == \E k \in 1..Len(inp) : inp[k].finishReason

\* C1: the output holds at most one message_start and at most one
\* message_stop, for any sequence of data lines, also when a line carrying
\* finishReason is followed by the normal end of the upstream stream.
C1_AtMostOneStartAndStop ==
    /\ Cardinality(Positions("message_start")) <= 1
    /\ Cardinality(Positions("message_stop")) <= 1

\* C2: every content_block_start of index i is followed by exactly one
\* content_block_stop of index i: never more than one, none before the
\* start, one once the stream is closed; and the stop comes before
\* message_stop: no message_stop is emitted while the block is open.
C2_EveryStartHasOneStop ==
    \A k \in Positions("content_block_start") :
        LET stops == StopsOf(out[k].index) IN
        /\ Cardinality(stops) <= 1
        /\ \A q \in stops : q > k
        /\ pc = "closed" => Cardinality(stops) = 1
        /\ \A m \in Positions("message_stop") :
              m > k => \E q \in stops : q < m

\* C2's case: the stream closed without any finishReason, after two blocks
\* were opened, one of them closed only by the end-of-stream step.
C2_Witness ==
    /\ pc = "closed"
    /\ ~SawFinishReason
    /\ Cardinality(Positions("content_block_start")) >= 2
    /\ Len(out) >= 3
    /\ out[Len(out) - 2].type = "content_block_stop"

\* C3: the indices of successive content_block_start events are strictly
\* increasing, so no index is used for two blocks.
C3_StartIndicesIncrease ==
    \A k, m \in Positions("content_block_start") :
        k < m => out[k].index < out[m].index

\* C3's case: blocks of every type were opened in one response, two of them
\* text blocks.
C3_Witness ==
    /\ Cardinality(StartsOf("text")) >= 2
    /\ StartsOf("server_tool_use") # {}
    /\ StartsOf("web_search_tool_result") # {}
    /\ StartsOf("thinking") \cup StartsOf("tool_use") # {}

\* C4: when message_start was sent and the upstream ends normally without
\* any line carrying finishReason, every opened block is closed and then
\* message_delta and message_stop are the last two events.
C4_EndOfStreamSafetyNet ==
    (pc = "closed" /\ messageStartSent /\ ~SawFinishReason) =>
        /\ Len(out) >= 3
        /\ out[Len(out) - 1].type = "message_delta"
        /\ out[Len(out)].type = "message_stop"
        /\ Positions("message_delta") = { Len(out) - 1 }
        /\ Positions("message_stop") = { Len(out) }
        /\ \A k \in Positions("content_block_start") :
              \E q \in StopsOf(out[k].index) : k < q /\ q < Len(out) - 1

\* C4's case: the stream ended without finishReason while a thinking block
\* and a text block were both still open.
C4_Witness ==
    /\ pc = "closed"
    /\ messageStartSent
    /\ ~SawFinishReason
    /\ thinkingBlockStarted
    /\ textBlockStarted

\* The content_block_* events of the output, in order.
ContentBlockEvents ==
    SelectSeq(out, LAMBDA e : e.type \in { "content_block_start",
                                           "content_block_delta",
                                           "content_block_stop" })

\* The parts delivered so far, in order of arrival.
RECURSIVE PartsOf(_)
PartsOf(ls) ==
    IF ls = <<>> THEN <<>>
    ELSE (IF Head(ls).kind = "candidate" THEN Head(ls).parts ELSE <<>>)
         \o PartsOf(Tail(ls))

\* The upstream delivered thought "a", then signature "sig1", then text "b",
\* and nothing else that makes events: no grounding chunks, and no
\* finishReason before the text part arrived.
C5_Input ==
    /\ PartsOf(inp) = <<ThoughtA, SigPart, TextB>>
    /\ \A k \in 1..Len(inp) :
          /\ inp[k].groundingChunks = 0
          /\ inp[k].finishReason => PartsOf(SubSeq(inp, 1, k)) = PartsOf(inp)

\* C5: for thought "a", signature "sig1", text "b" the content-block events
\* are start(thinking), thinking_delta "a", signature_delta "sig1", stop,
\* start(text), text_delta "b", stop, in this order.
C5_ThinkingSignatureTextOrder ==
    (pc = "closed" /\ C5_Input) =>
        ContentBlockEvents =
            << BlockStart(0, "thinking"),
               BlockDelta(0, "thinking_delta", "a"),
               BlockDelta(0, "signature_delta", "sig1"),
               BlockStop(0),
               BlockStart(1, "text"),
               BlockDelta(1, "text_delta", "b"),
               BlockStop(1) >>

\* C5's case: the three parts arrived in three separate lines and the
\* stream closed.
C5_Witness ==
    /\ pc = "closed"
    /\ C5_Input
    /\ Len(inp) = 3
    /\ \A k \in 1..3 : Len(inp[k].parts) = 1

\* C6: the server_tool_use + web_search_tool_result pair is emitted at most
\* once per response, also when several lines carry grounding chunks.
C6_WebSearchPairAtMostOnce ==
    /\ Cardinality(StartsOf("server_tool_use")) <= 1
    /\ Cardinality(StartsOf("web_search_tool_result")) <= 1


(***************************************************************************)
(* getFreshAccessToken and transformRequestIn, per plugin                  *)
(***************************************************************************)
\* Antigravity transformer: credentials.access_token && credentials.token_expiry
\* && (credentials.token_expiry - now) > expiryThreshold
StoredTokenFreshNoMargin(credentials, t) ==
    /\ credentials.access_token # ""
    /\ credentials.token_expiry # 0
    /\ credentials.token_expiry - t > 0

StoredTokenFresh(credentials, t) ==
    /\ credentials.access_token # ""
    /\ credentials.token_expiry # 0
    /\ credentials.token_expiry - t > ExpiryThreshold

\* Gemini interceptors: cachedAccessToken && tokenExpiryTime > now + 5 * 60 * 1000
CachedTokenFresh(token, expiry, t) ==
    /\ token # ""
    /\ expiry > t + ExpiryThreshold

\* transformRequestIn has ended for the caller: "authorized" (it returned a
\* config with an Authorization header), "unauthorized" (it returned body and
\* config without one), "failed" (it threw).
Done(outcome, token) ==
    [IdleCall EXCEPT !.pc = "done", !.outcome = outcome, !.token = token]

\* The same through getFreshAccessToken's early return of the token it holds.
DoneCached(token) ==
    [Done("authorized", token) EXCEPT !.path = "cached"]

\* Antigravity transformer, getFreshAccessToken up to its first await, and
\* transformRequestIn's use of the result.
AntigravityEntry(st) ==
    IF ~st.exists THEN Done("failed", "")
    ELSE IF st.refresh_token = "" THEN Done("failed", "")
    ELSE IF StoredTokenFresh(st, now) THEN DoneCached(st.access_token)
    ELSE [IdleCall EXCEPT !.pc = "refreshing", !.credentials = st]

\* Gemini interceptor (token-endpoint variant), the same.
InterceptorEntry(st) ==
    IF CachedTokenFresh(cachedAccessToken, tokenExpiryTime, now)
    THEN DoneCached(cachedAccessToken)
    ELSE IF ~(st.exists /\ st.refresh_token # "") THEN Done("unauthorized", "")
    ELSE [IdleCall EXCEPT !.pc = "refreshing", !.credentials = st, !.now = now]

\* Gemini interceptor (google-auth-library variant), the same: without a
\* refresh token it awaits runLoginFlow().
InterceptorLibEntry(st) ==
    IF CachedTokenFresh(cachedAccessToken, tokenExpiryTime, now)
    THEN DoneCached(cachedAccessToken)
    ELSE IF ~(st.exists /\ st.refresh_token # "")
         THEN [IdleCall EXCEPT !.pc = "login", !.path = "initial"]
    ELSE [IdleCall EXCEPT !.pc = "refreshing", !.credentials = st]

Entry(st) ==
    CASE plugin = "antigravity" -> AntigravityEntry(st)
      [] plugin = "interceptor" -> InterceptorEntry(st)
      [] plugin = "interceptorLib" -> InterceptorLibEntry(st)

\* A request reaches transformRequestIn, which awaits getFreshAccessToken().
Call(c) ==
    /\ call[c].pc = "idle"
    /\ call' = [call EXCEPT ![c] = Entry(store)]
    /\ UNCHANGED <<plugin, store, now, cachedAccessToken, tokenExpiryTime>>
    /\ UNCHANGED besideToken

\* Antigravity transformer, refreshAccessToken's response handler.
AntigravityRefreshResponse(c, resp) ==
    LET r == call[c] IN
    /\ plugin = "antigravity"
    /\ IF resp.kind = "ok"
       THEN /\ store' = [r.credentials EXCEPT
                            !.access_token = resp.access_token,
                            !.token_expiry = now + resp.expires_in]
            /\ call' = [call EXCEPT ![c] = Done("authorized", resp.access_token)]
       ELSE /\ store' = store
            /\ call' = [call EXCEPT ![c] = Done("failed", "")]
    /\ UNCHANGED <<cachedAccessToken, tokenExpiryTime>>

\* Gemini interceptor, getFreshAccessToken after `await refreshAccessToken`.
InterceptorRefreshResponse(c, resp) ==
    LET r == call[c] IN
    /\ plugin = "interceptor"
    /\ CASE resp.kind = "ok" ->
              /\ cachedAccessToken' = resp.access_token
              /\ tokenExpiryTime' = r.now + resp.expires_in
              /\ store' = [r.credentials EXCEPT
                              !.access_token = resp.access_token,
                              !.expiry_date = r.now + resp.expires_in]
              /\ call' = [call EXCEPT ![c] = Done("authorized", resp.access_token)]
         [] resp.kind = "empty" ->
              \* no error and no access_token: undefined is cached and returned
              /\ cachedAccessToken' = ""
              /\ tokenExpiryTime' = 0
              /\ store' = [r.credentials EXCEPT !.access_token = "", !.expiry_date = 0]
              /\ call' = [call EXCEPT ![c] = Done("unauthorized", "")]
         [] resp.kind = "invalid_grant" ->
              /\ cachedAccessToken' = ""
              /\ tokenExpiryTime' = 0
              /\ store' = store
              /\ call' = [call EXCEPT ![c] = Done("unauthorized", "")]
         [] resp.kind = "error" ->
              /\ UNCHANGED <<cachedAccessToken, tokenExpiryTime, store>>
              /\ call' = [call EXCEPT ![c] = Done("unauthorized", "")]

\* Gemini interceptor (google-auth-library variant), getFreshAccessToken after
\* `await client.getAccessToken()`.
InterceptorLibRefreshResponse(c, resp) ==
    LET r == call[c] IN
    /\ plugin = "interceptorLib"
    /\ CASE resp.kind = "ok" ->
              /\ cachedAccessToken' = resp.access_token
              /\ tokenExpiryTime' = now + resp.expires_in
              /\ store' = [r.credentials EXCEPT
                              !.access_token = resp.access_token,
                              !.expiry_date = now + resp.expires_in]
              /\ call' = [call EXCEPT ![c] = Done("authorized", resp.access_token)]
         [] resp.kind = "empty" ->
              /\ UNCHANGED <<cachedAccessToken, tokenExpiryTime, store>>
              /\ call' = [call EXCEPT ![c] = [r EXCEPT !.pc = "login", !.path = "notoken"]]
         [] resp.kind = "invalid_grant" ->
              /\ UNCHANGED <<cachedAccessToken, tokenExpiryTime, store>>
              /\ call' = [call EXCEPT ![c] = [r EXCEPT !.pc = "login", !.path = "invalid"]]
         [] resp.kind = "error" ->
              /\ UNCHANGED <<cachedAccessToken, tokenExpiryTime, store>>
              /\ call' = [call EXCEPT ![c] = Done("unauthorized", "")]

\* The token endpoint answers a refresh POST.
RefreshResponse(c) ==
    /\ call[c].pc = "refreshing"
    /\ \E resp \in RefreshResponses :
          \/ AntigravityRefreshResponse(c, resp)
          \/ InterceptorRefreshResponse(c, resp)
          \/ InterceptorLibRefreshResponse(c, resp)
    /\ UNCHANGED <<plugin, now>>
    /\ UNCHANGED besideToken

\* Gemini interceptor (google-auth-library variant): the runLoginFlow() that
\* getFreshAccessToken awaits ends, with saved credentials, with null, or by
\* throwing (callback error, failed exchange, port in use, timeout).
LoginFlowDone(c) ==
    LET r == call[c] IN
    /\ r.pc = "login"
    /\ \/ \E cl \in ClientConfigs, rt \in RefreshTokens, at \in AccessTokens,
            e \in ExpiresIn :
            LET creds == Credentials(TRUE, cl, rt, at, 0, now + e) IN
            /\ store' = creds
            /\ call' = [call EXCEPT ![c] =
                  IF r.path = "initial"
                  THEN [r EXCEPT !.pc = "refreshing", !.credentials = creds]
                  ELSE Entry(creds)]
       \/ /\ store' = store
          /\ call' = [call EXCEPT ![c] = Done("unauthorized", "")]
       \/ /\ store' = store
          /\ call' = [call EXCEPT ![c] =
                IF r.path = "notoken" THEN Done("unauthorized", "")
                ELSE Done("failed", "")]
    /\ UNCHANGED <<plugin, now, cachedAccessToken, tokenExpiryTime>>
    /\ UNCHANGED besideToken

(***************************************************************************)
(* The web UI's endpoints that write the credential file                   *)
(***************************************************************************)
\* POST /api/google-auth/credentials
SaveClientCredentials ==
    /\ \E cl \in ClientConfigs :
          store' = [store EXCEPT !.exists = TRUE, !.client = cl]
    /\ UNCHANGED <<plugin, now, cachedAccessToken, tokenExpiryTime, call>>
    /\ UNCHANGED besideToken

\* GET /api/google-auth/start, to the end of a successful callback: the
\* client configuration read from the file when the flow started, the code
\* exchanged for tokens that include a refresh token, and the credentials
\* written over the file.
AuthFlowSuccess ==
    /\ store.exists /\ store.client # ""
    /\ \E rt \in RefreshTokens, at \in AccessTokens, e \in ExpiresIn :
          store' = Credentials(TRUE, store.client, rt, at, 0, now + e)
    /\ UNCHANGED <<plugin, now, cachedAccessToken, tokenExpiryTime, call>>
    /\ UNCHANGED besideToken

\* A minute passes.
Tick ==
    /\ now < MaxTime
    /\ now' = now + 1
    /\ UNCHANGED <<plugin, store, cachedAccessToken, tokenExpiryTime, call>>
    /\ UNCHANGED besideToken

(***************************************************************************)
(* TokenSpec: the requests of one process and the web UI, on one           *)
(* credential file                                                         *)
(***************************************************************************)
TokenInit ==
    /\ plugin \in Plugins
    /\ store = NoCredentials
    /\ now = 0
    /\ cachedAccessToken = ""
    /\ tokenExpiryTime = 0
    /\ call = [c \in Callers |-> IdleCall]
    /\ StreamIdle
    /\ AuthIdle
    /\ SearchIdle
    /\ RouteIdle
    /\ RequestIdle

TokenNext ==
    \/ \E c \in Callers : Call(c)
    \/ \E c \in Callers : RefreshResponse(c)
    \/ \E c \in Callers : LoginFlowDone(c)
    \/ SaveClientCredentials
    \/ AuthFlowSuccess
    \/ Tick

TokenSpec == TokenInit /\ [][TokenNext]_vars

(***************************************************************************)
(* Properties of token handling                                            *)
(***************************************************************************)
RefreshesInFlight == {c \in Callers : call[c].pc = "refreshing"}

\* C7: while the held access token is expired or within the 5-minute margin,
\* concurrent callers of getFreshAccessToken have at most one refresh POST in
\* flight at any time.
C7_AtMostOneRefreshInFlight == Cardinality(RefreshesInFlight) <= 1

\* The access token getFreshAccessToken holds before any refresh, and its
\* expiry: the stored ones for the Antigravity transformer, the cached ones
\* for the Gemini interceptors.
ExistingToken ==
    IF plugin = "antigravity" THEN store.access_token ELSE cachedAccessToken

ExistingExpiry ==
    IF plugin = "antigravity" THEN store.token_expiry ELSE tokenExpiryTime

ExistingTokenValid ==
    ExistingToken # "" /\ now + ExpiryThreshold < ExistingExpiry

ReturnsToken(c) ==
    call'[c].pc = "done" /\ call'[c].outcome = "authorized"

C9_NoLoginFlowFromRequestPath ==
    \A c \in Callers : ~(call[c].pc = "login" /\ call[c].path = "initial")

\* C10: transformRequestIn never returns a body and config without an
\* Authorization bearer token.
C10_NoRequestWithoutAuthorization ==
    \A c \in Callers : ~(call[c].pc = "done" /\ call[c].outcome = "unauthorized")

(***************************************************************************)
(* StoreSpec: the same requests and endpoints, started on a credential     *)
(* file that an earlier authorization left behind                          *)
(***************************************************************************)
\* google_credentials.json as an earlier authorization wrote it: client
\* configuration and a refresh token, the access token long expired.
PreviousCredentials == Credentials(TRUE, "c1", "r0", "", 0, 0)

StoreInit ==
    /\ plugin \in Plugins
    /\ store = PreviousCredentials
    /\ now = 0
    /\ cachedAccessToken = ""
    /\ tokenExpiryTime = 0
    /\ call = [c \in Callers |-> IdleCall]
    /\ StreamIdle
    /\ AuthIdle
    /\ SearchIdle
    /\ RouteIdle
    /\ RequestIdle

StoreSpec == StoreInit /\ [][TokenNext]_vars

RefreshSucceeds(c) ==
    call[c].pc = "refreshing" /\ ReturnsToken(c)

\* C12: a successful refresh writes the new access token to the credential
\* store and leaves the client configuration and the refresh token that the
\* store holds at the moment of the write unchanged, also when the
\* authorization flow or the credentials endpoint wrote the file while the
\* refresh was in flight.
C12_RefreshWriteKeepsOtherFields ==
    [][\A c \in Callers :
          RefreshSucceeds(c)
             => /\ store'.exists
                /\ store'.access_token = call'[c].token
                /\ store'.client = store.client
                /\ store'.refresh_token = store.refresh_token]_vars

\* C11: after a refresh that the token endpoint refuses with invalid_grant or
\* revoked, the same call of getFreshAccessToken starts no re-authentication
\* (and with it no further refresh).
C11_NoReauthenticationAfterInvalidGrant ==
    \A c \in Callers : ~(call[c].pc = "login" /\ call[c].path = "invalid")

(***************************************************************************)
(* The interactive authorization flow: GET /api/google-auth/start of the   *)
(* server, and runLoginFlow of the Gemini interceptor                      *)
(***************************************************************************)
closeServerFlagOnly(a) ==
    IF a.serverClosed THEN a
    ELSE [a EXCEPT !.serverClosed = TRUE,
                   !.timer = IF @ = "pending" THEN "cleared" ELSE @]

\* closeServer of the server flow: once only, it clears the timeout and
\* closes the callback server.
closeServer(a) ==
    IF a.serverClosed THEN a
    ELSE [a EXCEPT !.serverClosed = TRUE,
                   !.timer = IF @ = "pending" THEN "cleared" ELSE @,
                   !.listener = "closed"]

\* server.close() of runLoginFlow.
serverClose(a) ==
    [a EXCEPT !.listener = IF @ \in {"starting", "open"} THEN "closed" ELSE @]

\* resolve / reject of the flow's promise: the first call settles it.
settle(a, result, error) ==
    IF a.result = "none" THEN [a EXCEPT !.result = result, !.error = error]
    ELSE a

\* GET /api/google-auth/start: with a client configuration in the credential
\* file it creates the callback server, calls listen() and arms the timeout.
StartAuthFlow ==
    /\ auth.kind = "none"
    /\ store.exists /\ store.client # ""
    /\ auth' = [NoFlow EXCEPT !.kind = "server", !.listener = "starting",
                              !.timer = "pending", !.savedCreds = store.client]
    /\ UNCHANGED <<tokenVars, besideAuth>>

\* runLoginFlow: client id and secret from the file, the environment or the
\* prompt; without them it returns null, with them it opens the browser,
\* creates the callback server, calls listen() and arms the timeout.
RunLoginFlow ==
    /\ auth.kind = "none"
    /\ \E cl \in ClientConfigs \cup { "" } :
          auth' = IF cl = ""
                  THEN [NoFlow EXCEPT !.kind = "cli", !.result = "failure",
                                      !.error = "noclient"]
                  ELSE [NoFlow EXCEPT !.kind = "cli", !.listener = "starting",
                                      !.timer = "pending", !.savedCreds = cl]
    /\ UNCHANGED <<tokenVars, besideAuth>>

\* listen() succeeds.
Listening ==
    /\ auth.listener = "starting"
    /\ auth' = [auth EXCEPT !.listener = "open"]
    /\ UNCHANGED <<tokenVars, besideAuth>>

\* The callback server's `error` event (EADDRINUSE or another listen error).
ListenError ==
    /\ auth.listener = "starting"
    /\ auth' = IF auth.kind = "server"
               THEN settle(closeServer(auth), "failure", "listen")
               ELSE settle([auth EXCEPT !.listener = "failed"], "failure", "listen")
    /\ UNCHANGED <<tokenVars, besideAuth>>

hasRefreshTokenAlways(tokens) == TRUE

\* `if (!tokens.refresh_token)` of both flows, negated.
hasRefreshToken(tokens) == tokens.refresh_token # ""

\* The credentials object both flows write after a successful exchange.
FlowCredentials(a, tokens) ==
    Credentials(TRUE, a.savedCreds, tokens.refresh_token, tokens.access_token,
                0, now + tokens.expires_in)

\* The server flow's request handler, up to its first await.
ServerCallback(a, q) ==
    IF ~q.path THEN a
    ELSE IF q.error THEN settle(closeServer(a), "failure", "error")
    ELSE IF ~q.code THEN settle(closeServer(a), "failure", "nocode")
    ELSE [a EXCEPT !.exchanges = @ + 1]

\* runLoginFlow's request handler, up to its first await.
CliCallback(a, q) ==
    IF q.error THEN settle(serverClose(a), "failure", "error")
    ELSE IF q.code THEN [a EXCEPT !.exchanges = @ + 1]
    ELSE a

\* A request reaches the callback listener.
Callback ==
    /\ auth.listener = "open"
    /\ auth.requests < MaxCallbacks
    /\ \E q \in Queries :
          LET a == [auth EXCEPT !.requests = @ + 1, !.query = q] IN
          auth' = IF auth.kind = "server" THEN ServerCallback(a, q)
                  ELSE CliCallback(a, q)
    /\ UNCHANGED <<tokenVars, besideAuth>>

\* The server flow's request handler after `await` of the token exchange.
ServerExchangeResponse(a, tokens) ==
    /\ auth' =
          IF tokens.kind = "throw" THEN settle(closeServer(a), "failure", "exchange")
          ELSE IF tokens.kind = "error" THEN settle(closeServer(a), "failure", "exchange")
          ELSE IF ~hasRefreshToken(tokens)
               THEN settle(closeServer(a), "failure", "norefresh")
          ELSE settle(closeServer(a), "success", "")
    /\ store' = IF tokens.kind = "ok" /\ hasRefreshToken(tokens)
                THEN FlowCredentials(a, tokens)
                ELSE store

\* runLoginFlow's request handler after `await oAuth2Client.getToken`, and,
\* when this settles the promise, runLoginFlow after `await new Promise`.
CliExchangeResponse(a, tokens) ==
    LET closed == serverClose(a) IN
    /\ auth' =
          IF tokens.kind # "ok" THEN settle(closed, "failure", "exchange")
          ELSE IF ~hasRefreshToken(tokens)
               THEN settle(closed, "failure", "norefresh")
          ELSE settle(closed, "success", "")
    /\ store' = IF tokens.kind = "ok" /\ hasRefreshToken(tokens) /\ a.result = "none"
                THEN FlowCredentials(a, tokens)
                ELSE store

\* The token endpoint answers a code-for-token exchange.
ExchangeResponse ==
    /\ auth.exchanges > 0
    /\ \E tokens \in ExchangeResponses :
          LET a == [auth EXCEPT !.exchanges = @ - 1, !.tokens = tokens] IN
          IF auth.kind = "server" THEN ServerExchangeResponse(a, tokens)
          ELSE CliExchangeResponse(a, tokens)
    /\ UNCHANGED <<plugin, now, cachedAccessToken, tokenExpiryTime, call>>
    /\ UNCHANGED besideAuth

\* The flow's timeout fires (1 minute in the server, 5 minutes in
\* runLoginFlow, which never clears it).
Timeout ==
    /\ auth.timer = "pending"
    /\ LET a == [auth EXCEPT !.timer = "fired"] IN
       auth' = IF auth.kind = "server"
               THEN (IF a.serverClosed THEN a
                     ELSE settle(closeServer(a), "failure", "timeout"))
               ELSE settle(serverClose(a), "failure", "timeout")
    /\ UNCHANGED <<tokenVars, besideAuth>>

(***************************************************************************)
(* AuthSpec: one authorization flow and the credentials endpoint           *)
(***************************************************************************)
AuthInit ==
    /\ TokenIdle
    /\ StreamIdle
    /\ AuthIdle
    /\ SearchIdle
    /\ RouteIdle
    /\ RequestIdle

AuthNext ==
    \/ SaveClientCredentials
    \/ StartAuthFlow
    \/ RunLoginFlow
    \/ Listening
    \/ ListenError
    \/ Callback
    \/ ExchangeResponse
    \/ Timeout

AuthSpec == AuthInit /\ [][AuthNext]_vars

(***************************************************************************)
(* Properties of the authorization flow                                    *)
(***************************************************************************)
\* C13: once a run of the authorization flow has reported its outcome
\* (success, provider error, missing code, failed exchange, missing refresh
\* token, listen error, timeout), its callback listener is not open.
C13_ListenerClosedOnEveryExit ==
    auth.result # "none" => auth.listener \notin {"starting", "open"}

\* A flow that handled a request and then timed out, its listener closed.
C13_Witness ==
    /\ auth.result = "failure" /\ auth.error = "timeout"
    /\ auth.requests > 0
    /\ auth.listener = "closed"

HandlesCallback ==
    auth'.requests = auth.requests + 1 /\ auth'.query.path

\* C14: on a request to the redirect path, the flow fails at once if the
\* query carries an error, fails at once if it carries neither error nor
\* code, and starts a token exchange exactly when it carries a code and no
\* error.
C14_CallbackErrorCodeHandling ==
    [][HandlesCallback =>
          /\ auth'.query.error => auth'.result = "failure"
          /\ (~auth'.query.error /\ ~auth'.query.code) => auth'.result = "failure"
          /\ (auth'.exchanges = auth.exchanges + 1)
                <=> (auth'.query.code /\ ~auth'.query.error)]_vars

ExchangeWithoutRefreshToken ==
    /\ auth'.exchanges = auth.exchanges - 1
    /\ auth'.tokens.kind = "ok"
    /\ auth'.tokens.refresh_token = ""

\* C15: when the code-for-token exchange succeeds but returns no refresh
\* token, the flow writes nothing to the credential store and, if it has not
\* reported its outcome yet, reports failure.
C15_NoRefreshTokenNoWrite ==
    [][ExchangeWithoutRefreshToken =>
          /\ store' = store
          /\ auth.result = "none" => auth'.result = "failure"]_vars

\* A flow that failed on an exchange without a refresh token, the credential
\* file still without one.
C15_Witness ==
    /\ auth.tokens.kind = "ok" /\ auth.tokens.refresh_token = ""
    /\ auth.result = "failure" /\ auth.error = "norefresh"
    /\ store.refresh_token = ""

(***************************************************************************)
(* cleanParameters                                                         *)
(***************************************************************************)
UnsupportedKeysNoFormat ==
    { "$schema", "$id", "$ref", "$defs", "definitions", "$comment",
      "examples", "default", "additionalProperties", "minimum", "maximum",
      "minLength", "maxLength", "minItems", "maxItems", "uniqueItems",
      "pattern", "nullable", "oneOf", "anyOf", "allOf", "not" }

\* The keys cleanParameters skips as unsupported by Gemini/Vertex.
UnsupportedKeys ==
    { "$schema", "$id", "$ref", "$defs", "definitions", "$comment",
      "examples", "default", "additionalProperties", "minimum", "maximum",
      "minLength", "maxLength", "minItems", "maxItems", "uniqueItems",
      "pattern", "format", "nullable", "oneOf", "anyOf", "allOf", "not" }

\* `delete cleaned.required`
DeleteKey(v, key) ==
    [v EXCEPT !.kids = SelectSeq(@, LAMBDA e : e.k # key)]

RECURSIVE cleanParameters(_)
RECURSIVE CleanEntries(_, _)

\* The for loop of cleanParameters over Object.entries(params), from entry i,
\* giving the entries of `cleaned`.
CleanEntries(entries, i) ==
    IF i > Len(entries) THEN <<>>
    ELSE LET key == entries[i].k
             value == entries[i].v
             rest == CleanEntries(entries, i + 1)
         IN  IF key \in UnsupportedKeys THEN rest
             ELSE IF key = "required" /\ value.t = "array" /\ NumKeys(value) = 0
                  THEN rest
             ELSE IF key = "properties" /\ IsObjectLike(value) /\ NumKeys(value) = 0
                  THEN rest
             ELSE IF key = "items" /\ IsObjectLike(value)
                  THEN LET cleanedItems == cleanParameters(value) IN
                       IF NumKeys(cleanedItems) = 0
                       THEN <<Entry_(key, Obj(<<Entry_("type", Str("string"))>>))>> \o rest
                       ELSE <<Entry_(key, cleanedItems)>> \o rest
             ELSE <<Entry_(key, cleanParameters(value))>> \o rest

cleanParameters(params) ==
    IF ~IsObjectLike(params) THEN params
    ELSE IF params.t = "array"
         THEN [params EXCEPT !.kids =
                  [i \in 1..Len(@) |-> Entry_("", cleanParameters(@[i].v))]]
    ELSE LET cleaned == Obj(CleanEntries(params.kids, 1)) IN
         IF Truthy(Get(cleaned, "required")) /\ ~Truthy(Get(cleaned, "properties"))
         THEN DeleteKey(cleaned, "required")
         ELSE cleaned

(***************************************************************************)
(* Tool schemas: the inputs of cleanParameters                             *)
(***************************************************************************)
\* Property names; "format" is also one of the unsupported keys.
Names == { "a", "format" }

TypeOnly(type) == <<Entry_("type", Str(type))>>

LeafSchemas ==
    { Obj(<<>>),
      Obj(TypeOnly("string")),
      Obj(TypeOnly("string") \o <<Entry_("format", Str("date"))>>),
      Obj(<<Entry_("anyOf", Arr(<<Obj(TypeOnly("string"))>>)),
            Entry_("default", Str("x"))>>) }

\* The `properties` objects over the schemas S: none, one property, or the
\* two properties with leaf schemas.
PropertiesOver(S) ==
    { Obj(<<>>) }
    \cup { Obj(<<Entry_(n, s)>>) : n \in Names, s \in S }
    \cup { Obj(<<Entry_("a", s1), Entry_("format", s2)>>) :
              s1 \in LeafSchemas, s2 \in LeafSchemas }

RequiredLists == { Arr(<<>>), Arr(<<Str("a")>>), Arr(<<Str("format")>>) }

\* An optional entry: none for Undefined.
Optional(key, v) == IF v = Undefined THEN <<>> ELSE <<Entry_(key, v)>>

ObjectSchemas(S) ==
    { Obj(TypeOnly("object") \o Optional("properties", p) \o Optional("required", r)) :
         p \in PropertiesOver(S) \cup { Undefined },
         r \in RequiredLists \cup { Undefined } }

\* `items` as one schema or as an array of schemas.
ArraySchemas(S) ==
    { Obj(TypeOnly("array")) }
    \cup { Obj(TypeOnly("array") \o <<Entry_("items", s)>>) : s \in S }
    \cup { Obj(TypeOnly("array") \o <<Entry_("items", Arr(<<s>>))>>) : s \in S }

RECURSIVE Schemas(_)
Schemas(depth) ==
    IF depth = 0 THEN LeafSchemas
    ELSE LET S == Schemas(depth - 1) IN
         LeafSchemas \cup ObjectSchemas(S) \cup ArraySchemas(S)

(***************************************************************************)
(* CleanSpec: transformRequestIn builds the declaration of one tool, and   *)
(* cleanParameters is applied once more to its result                      *)
(***************************************************************************)
emptyParams ==
    Obj(<<Entry_("type", Str("object")), Entry_("properties", Obj(<<>>))>>)

\* transformRequestIn, the tool loop for a tool in Anthropic format
\* (name + input_schema), or with a name only.
DeclareTool ==
    /\ functionDeclaration = Undefined
    /\ LET cleaned == cleanParameters(input_schema)
           parameters == IF Truthy(input_schema) /\ Truthy(cleaned) /\ NumKeys(cleaned) > 0
                         THEN cleaned ELSE emptyParams
       IN  /\ cleanedParams' = IF Truthy(input_schema) THEN cleaned ELSE Undefined
           /\ functionDeclaration' =
                 Obj(<<Entry_("name", Str("tool")), Entry_("description", Str("")),
                       Entry_("parameters", parameters)>>)
    /\ UNCHANGED <<input_schema, cleanedAgain, messages, contents>>
    /\ UNCHANGED besideRequest

\* cleanParameters applied to its own result.
CleanAgain ==
    /\ cleanedParams # Undefined
    /\ cleanedAgain = Undefined
    /\ cleanedAgain' = cleanParameters(cleanedParams)
    /\ UNCHANGED <<input_schema, cleanedParams, functionDeclaration, messages, contents>>
    /\ UNCHANGED besideRequest

CleanInit ==
    /\ input_schema \in Schemas(MaxDepth) \cup { Undefined }
    /\ cleanedParams = Undefined
    /\ cleanedAgain = Undefined
    /\ functionDeclaration = Undefined
    /\ messages = <<>>
    /\ contents = <<>>
    /\ StreamIdle
    /\ TokenIdle
    /\ AuthIdle
    /\ SearchIdle
    /\ RouteIdle

CleanNext ==
    \/ DeclareTool
    \/ CleanAgain

CleanSpec == CleanInit /\ [][CleanNext]_vars

(***************************************************************************)
(* Properties of cleanParameters and of the tool declarations              *)
(***************************************************************************)
RECURSIVE Subvalues(_)
\* A value and every value nested in it.
Subvalues(v) ==
    { v } \cup UNION { Subvalues(v.kids[i].v) : i \in 1..Len(v.kids) }

KeysOf(v) == { v.kids[i].k : i \in 1..Len(v.kids) }

\* C16: cleanParameters is idempotent: applied to its own result it returns
\* that result.
C16_CleanParametersIdempotent ==
    cleanedAgain # Undefined => cleanedAgain = cleanedParams

DenyListedKeys ==
    { "$schema", "$id", "$ref", "$defs", "definitions", "$comment",
      "examples", "default", "additionalProperties", "minimum", "maximum",
      "minLength", "maxLength", "minItems", "maxItems", "uniqueItems",
      "pattern", "format", "nullable", "oneOf", "anyOf", "allOf", "not" }

\* C17: the result of cleanParameters, and with it the parameters of the
\* declaration, holds none of the deny-listed keys at any depth, inside
\* `items` and inside arrays of schemas included.
C17_NoDenyListedKeyAtAnyDepth ==
    \A v \in Subvalues(cleanedParams) \cup Subvalues(functionDeclaration) :
       v.t = "object" => KeysOf(v) \cap DenyListedKeys = {}

\* A cleaned schema whose input held a deny-listed key inside an array of
\* schemas under `items`, two levels down.
C17_Witness ==
    /\ cleanedParams # Undefined
    /\ \E v \in Subvalues(input_schema) :
          /\ v # input_schema
          /\ Get(v, "items").t = "array"
          /\ \E w \in Subvalues(Get(v, "items")) : "format" \in KeysOf(w)

GeminiTypes == { "OBJECT", "STRING", "ARRAY", "BOOLEAN", "NUMBER", "INTEGER" }

\* C18: every `type` field at every depth of an emitted declaration's
\* parameters, the default parameters included, is one of OBJECT, STRING,
\* ARRAY, BOOLEAN, NUMBER, INTEGER.
C18_TypesUppercased ==
    functionDeclaration # Undefined
       => \A v \in Subvalues(Get(functionDeclaration, "parameters")) :
             (v.t = "object" /\ Get(v, "type").t = "string")
                => Get(v, "type").s \in GeminiTypes

\* C19: in the result of cleanParameters no object at any depth has
\* `required` without a non-empty `properties`, an empty `properties`, or an
\* empty `required`.
C19_NoDanglingRequiredNoEmptyProperties ==
    \A v \in Subvalues(cleanedParams) :
       v.t = "object"
          => /\ HasKey(v, "required")
                   => /\ NumKeys(Get(v, "required")) > 0
                      /\ HasKey(v, "properties")
             /\ HasKey(v, "properties") => NumKeys(Get(v, "properties")) > 0

(***************************************************************************)
(* transformRequestIn: request.messages to contents                        *)
(***************************************************************************)
\* A tool call of an assistant message; id = "" for a call without id.
ToolCall(id, name) == [id |-> id, name |-> name]

\* A message; content = "" for none, tool_calls = <<>> for none,
\* tool_call_id of tool-role messages only.
Message(role, content, tool_calls, tool_call_id) ==
    [role |-> role, content |-> content, tool_calls |-> tool_calls,
     tool_call_id |-> tool_call_id]

ToolCallIds == { "", "call_1" }

ToolCallLists ==
    { <<>> }
    \cup { <<ToolCall(i, "f")>> : i \in ToolCallIds }
    \cup { <<ToolCall(i, "f"), ToolCall(j, "g")>> : i \in ToolCallIds, j \in ToolCallIds }

Messages ==
    { Message("user", "hi", <<>>, ""), Message("system", "be brief", <<>>, "") }
    \cup { Message("assistant", c, tc, "") : c \in { "", "ok" }, tc \in ToolCallLists }
    \cup { Message("tool", "result", <<>>, i) : i \in { "call_1", "call_2" } }

RECURSIVE MessageLists(_)
MessageLists(n) ==
    IF n = 0 THEN { <<>> }
    ELSE LET shorter == MessageLists(n - 1) IN
         shorter \cup { Append(l, m) : l \in { s \in shorter : Len(s) = n - 1 },
                                      m \in Messages }

\* What Math.random() gives the tool call j of message i.
RandomIds == { "tool_x", "tool_y" }

\* A part of a content: kind "text", "functionCall" or "functionResponse".
TextPart(text) ==
    [kind |-> "text", text |-> text, id |-> "", name |-> "", output |-> ""]

FunctionCallPart(id, name) ==
    [kind |-> "functionCall", text |-> "", id |-> id, name |-> name, output |-> ""]

FunctionResponsePart(id, name, output) ==
    [kind |-> "functionResponse", text |-> "", id |-> id, name |-> name,
     output |-> output]

Content(role, parts) == [role |-> role, parts |-> parts]

\* toolResponses.find(item => item.tool_call_id === tool.id)?.content
ResponseContent(toolResponses, id) ==
    IF \E k \in 1..Len(toolResponses) : toolResponses[k].tool_call_id = id
    THEN toolResponses[CHOOSE k \in 1..Len(toolResponses) :
             /\ toolResponses[k].tool_call_id = id
             /\ \A h \in 1..(k - 1) : toolResponses[h].tool_call_id # id].content
    ELSE ""

SystemMessageNever(message) == FALSE

\* `message.role === 'system'`: the message goes to systemInstruction.
SystemMessage(message) == message.role = "system"

\* The contents one message adds: its parts, and after a model message with
\* tool calls the function responses.
ConvertMessage(message, toolResponses, rnd) ==
    LET role == IF message.role = "assistant" THEN "model" ELSE "user"
        textParts_ == IF message.content # "" THEN <<TextPart(message.content)>>
                      ELSE <<>>
        callParts == [j \in 1..Len(message.tool_calls) |->
                        LET toolCall == message.tool_calls[j] IN
                        FunctionCallPart(IF toolCall.id # "" THEN toolCall.id
                                         ELSE rnd[j],
                                         toolCall.name)]
        parts == textParts_ \o callParts
        functionResponses ==
            [j \in 1..Len(message.tool_calls) |->
                LET tool == message.tool_calls[j] IN
                FunctionResponsePart(tool.id, tool.name,
                                     ResponseContent(toolResponses, tool.id))]
    IN  IF SystemMessage(message) THEN <<>>
        ELSE (IF Len(parts) > 0 THEN <<Content(role, parts)>> ELSE <<>>)
             \o (IF role = "model" /\ Len(functionResponses) > 0
                 THEN <<Content("user", functionResponses)>> ELSE <<>>)

RECURSIVE ConvertMessages(_, _, _, _)
\* The for loop over the messages that are not tool-role, from message i.
ConvertMessages(msgs, toolResponses, rnd, i) ==
    IF i > Len(msgs) THEN <<>>
    ELSE ConvertMessage(msgs[i], toolResponses, rnd[i])
            \o ConvertMessages(msgs, toolResponses, rnd, i + 1)

\* transformRequestIn, from `const contents = []` to the end of the loop.
BuildContents ==
    /\ contents = <<>>
    /\ LET toolResponses == SelectSeq(messages, LAMBDA m : m.role = "tool")
           others == SelectSeq(messages, LAMBDA m : m.role # "tool")
       IN  \E rnd \in [1..Len(others) -> [1..2 -> RandomIds]] :
              contents' = ConvertMessages(others, toolResponses, rnd, 1)
    /\ UNCHANGED <<input_schema, cleanedParams, cleanedAgain, functionDeclaration,
                   messages>>
    /\ UNCHANGED besideRequest

ContentsInit ==
    /\ messages \in MessageLists(MaxMessages)
    /\ contents = <<>>
    /\ input_schema = Undefined
    /\ cleanedParams = Undefined
    /\ cleanedAgain = Undefined
    /\ functionDeclaration = Undefined
    /\ StreamIdle
    /\ TokenIdle
    /\ AuthIdle
    /\ SearchIdle
    /\ RouteIdle

ContentsNext == BuildContents

ContentsSpec == ContentsInit /\ [][ContentsNext]_vars

(***************************************************************************)
(* Properties of the contents                                              *)
(***************************************************************************)
PartsOfKind(content, kind) ==
    SelectSeq(content.parts, LAMBDA part : part.kind = kind)

\* C20: every model-role content that holds functionCall parts is followed at
\* once by a user-role content that holds exactly one functionResponse per
\* functionCall, in the same order, each with the id of its functionCall.
C20_FunctionResponsesPairedById ==
    \A i \in 1..Len(contents) :
       LET calls == PartsOfKind(contents[i], "functionCall") IN
       (contents[i].role = "model" /\ Len(calls) > 0)
          => /\ i < Len(contents)
             /\ contents[i + 1].role = "user"
             /\ LET responses == contents[i + 1].parts IN
                /\ Len(responses) = Len(calls)
                /\ \A j \in 1..Len(calls) :
                      /\ responses[j].kind = "functionResponse"
                      /\ responses[j].id = calls[j].id

\* The messages that give a content of their own: neither tool nor system
\* role, with text or tool calls.
ContentMessages ==
    SelectSeq(messages, LAMBDA m :
        /\ m.role \notin { "tool", "system" }
        /\ (m.content # "" \/ Len(m.tool_calls) > 0))

\* The contents that are not the function responses added after a model
\* content.
MessageContents ==
    SelectSeq(contents, LAMBDA c :
        \E j \in 1..Len(c.parts) : c.parts[j].kind # "functionResponse")

\* C21: the contents are well formed: every entry has role user or model and
\* at least one part; the entries derived from messages are, in the inbound
\* order, those of the messages that are neither system nor tool messages
\* and have text or tool calls; none comes from a system message.
C21_ContentsWellFormed ==
    contents # <<>>
       => /\ \A i \in 1..Len(contents) :
                /\ contents[i].role \in { "user", "model" }
                /\ Len(contents[i].parts) > 0
          /\ Len(MessageContents) = Len(ContentMessages)
          /\ \A i \in 1..Len(MessageContents) :
                LET c == MessageContents[i]
                    m == ContentMessages[i]
                    texts == PartsOfKind(c, "text")
                    calls == PartsOfKind(c, "functionCall")
                IN  /\ c.role = IF m.role = "assistant" THEN "model" ELSE "user"
                    /\ c.parts = texts \o calls
                    /\ Len(texts) = IF m.content # "" THEN 1 ELSE 0
                    /\ \A j \in 1..Len(texts) : texts[j].text = m.content
                    /\ Len(calls) = Len(m.tool_calls)
                    /\ \A j \in 1..Len(calls) : calls[j].name = m.tool_calls[j].name

\* Contents built from a list that holds a system message and another
\* message.
C21_Witness ==
    /\ contents # <<>>
    /\ \E i \in 1..Len(messages) : messages[i].role = "system"

(***************************************************************************)
(* RouteSpec: one request through the router, transformRequestIn and       *)
(* transformResponseOut of the Antigravity transformer                     *)
(***************************************************************************)
\* The options a configuration passes to the constructor: project "" and
\* the empty modelMapping stand for an option that is not given.
OptionsGiven ==
    [project : { "", "proj-1" },
     modelMapping : { <<>>, (ModelName.opus45 :> ModelName.configured) }]

\* The tools lists of the requests: the web-search tool and a custom tool
\* (Claude Code's own tools carry no type).
ToolLists ==
    LET webSearch == [type |-> "web_search_20250305", name |-> "web_search"]
        bash == [type |-> "", name |-> "Bash"]
    IN  { <<>>, <<bash>>, <<webSearch>>, <<bash, webSearch>>, <<webSearch, bash>> }

\* req.body as the client sends it.
Requests ==
    [model : { ModelName.opus45, ModelName.haiku45, ModelName.sonnet45,
               ModelName.upperOpus, ModelName.haikuOpus, ModelName.gpt,
               ModelName.none },
     tools : ToolLists,
     thinking : BOOLEAN,
     originalModel : { ModelName.none },
     isWebSearch : { FALSE },
     messages : { <<Message("user", "hi", <<>>, "")>> }]

\* What the upstream's payloads say: an answer with one text part and a
\* finish reason, and an error object without candidates.
Payloads ==
    { [candidates |-> << [parts |-> <<TextB>>, groundingChunks |-> 0,
                          finishReason |-> TRUE] >>,
       usageMetadata |-> 1, error |-> ""],
      [candidates |-> <<>>, usageMetadata |-> 0, error |-> "RESOURCE_EXHAUSTED"] }

\* The upstream's responses: status, Content-Type and payload (a response
\* that is not ok carries the error object).
Responses ==
    { r \in [status : { 200, 429 },
             contentType : { "text/event-stream", "application/json", "text/html" },
             data : Payloads] :
        r.status = 429 => r.data.candidates = <<>> }

\* String.prototype.toLowerCase, on the upper-case letters the names use.
toLowerCase(s) ==
    IF s = <<>> THEN <<>>
    ELSE [i \in 1..Len(s) |->
            CASE s[i] = "O" -> "o" [] s[i] = "P" -> "p" [] s[i] = "U" -> "u"
              [] s[i] = "S" -> "s" [] OTHER -> s[i]]

\* String.prototype.includes.
includes(s, sub) ==
    \E i \in 0..(Len(s) - Len(sub)) : SubSeq(s, i + 1, i + Len(sub)) = sub

\* hasWebSearch looking at the first tool only.
hasWebSearchFirstOnly(tools) ==
    tools # <<>> /\ tools[1].type = "web_search_20250305"

\* tools.some(tool => tool.type === 'web_search_20250305')
hasWebSearch(tools) ==
    \E i \in DOMAIN tools : tools[i].type = "web_search_20250305"

\* router(req, config, context): the route it returns and req.body as it
\* leaves it.
router(body) ==
    LET originalModel == body.model
        modelLower == toLowerCase(originalModel)
        antigravityModel ==
            IF includes(modelLower, ModelName.opus) THEN ModelName.opusThinking
            ELSE IF includes(modelLower, ModelName.haiku) THEN ModelName.gemini3
            ELSE IF includes(modelLower, ModelName.sonnet) THEN ModelName.sonnetThinking
            ELSE IF body.thinking THEN ModelName.opusThinking
            ELSE ModelName.sonnetThinking
    IN  IF hasWebSearch(body.tools)
        THEN [body |-> [body EXCEPT !.isWebSearch = TRUE],
              provider |-> "antigravity-websearch", model |-> ModelName.flash]
        ELSE [body |-> [body EXCEPT !.originalModel = originalModel],
              provider |-> "antigravity", model |-> antigravityModel]

\* The router runs on the request; its caller then overwrites body.model
\* with the model of the route ("request.originalModel is set by router.ts
\* before overwriting body.model").
Route ==
    /\ route = NoRoute
    /\ LET r == router(req) IN
          /\ route' = [provider |-> r.provider, model |-> r.model]
          /\ req' = [r.body EXCEPT !.model = r.model]
    /\ UNCHANGED <<options, provider, context, envelope, upstream, reply>>
    /\ UNCHANGED besideRoute

\* this.options.modelMapping[name]; undefined is the empty name.
Mapped(modelMapping, name) ==
    IF name \in DOMAIN modelMapping THEN modelMapping[name] ELSE ModelName.none

\* transformRequestIn, "Map model name to Antigravity model name": the
\* requested model is request.originalModel || context?.originalModel ||
\* request.model || '' (the contexts here carry no originalModel).
antigravityModel(request, opts) ==
    LET requestedModel == IF request.originalModel # ModelName.none
                          THEN request.originalModel ELSE request.model
        modelLower == toLowerCase(requestedModel)
        orElse(name, target) ==
            IF Mapped(opts.modelMapping, name) # ModelName.none
            THEN Mapped(opts.modelMapping, name) ELSE target
    IN  IF Mapped(opts.modelMapping, requestedModel) # ModelName.none
        THEN Mapped(opts.modelMapping, requestedModel)
        ELSE IF includes(modelLower, ModelName.opus)
        THEN orElse(ModelName.opus45, ModelName.opusThinking)
        ELSE IF includes(modelLower, ModelName.haiku)
        THEN orElse(ModelName.haiku45, ModelName.gemini3)
        ELSE orElse(ModelName.sonnet45, ModelName.sonnetThinking)

\* transformRequestIn(request, provider, context) of the Antigravity
\* transformer: getFreshAccessToken gives a token or throws; the request id
\* comes from crypto.randomUUID(); each tool here has a name only and is
\* declared with the empty parameters.
TransformRequestIn ==
    /\ route.provider = "antigravity"
    /\ envelope.state = "none"
    /\ \/ envelope' = [NoEnvelope EXCEPT !.state = "failed"]
       \/ \E uuid \in { "uuid-1", "uuid-2" } :
          LET toolResponses == SelectSeq(req.messages, LAMBDA m : m.role = "tool")
              others == SelectSeq(req.messages, LAMBDA m : m.role # "tool")
          IN  \E rnd \in [1..Len(others) -> [1..2 -> RandomIds]] :
                 envelope' =
                    [state |-> "built",
                     body |-> [project |-> options.project,
                               requestId |-> "agent-" \o uuid,
                               request |-> [contents |-> ConvertMessages(others, toolResponses, rnd, 1),
                                            sessionId |-> "-1762100000000"],
                               model |-> antigravityModel(req, options),
                               userAgent |-> options.userAgent,
                               requestType |-> options.requestType],
                     authorization |-> "Bearer t1",
                     requestModel |-> req.model]
    /\ UNCHANGED <<options, req, provider, context, route, upstream, reply>>
    /\ UNCHANGED besideRoute

\* The upstream answers the request.
Respond ==
    /\ envelope.state = "built"
    /\ upstream = NoResponse
    /\ upstream' \in Responses
    /\ UNCHANGED <<options, req, provider, context, route, envelope, reply>>
    /\ UNCHANGED besideRoute

\* The JSON a body holds for a payload in one of the two encodings.
Encode(data, encoding) ==
    LET bare == [response |-> <<>>, candidates |-> data.candidates,
                 usageMetadata |-> data.usageMetadata, error |-> data.error]
    IN  IF encoding = "wrapped"
        THEN [response |-> <<bare>>, candidates |-> <<>>, usageMetadata |-> 0,
              error |-> ""]
        ELSE bare

Returned(path, status, bodyUsed, model, events, content) ==
    [state |-> "returned", path |-> path, status |-> status, bodyUsed |-> bodyUsed,
     model |-> model, events |-> events, content |-> content]

\* The text of the parts that are text and no thought.
TextOf(parts) ==
    LET texts == SelectSeq(parts, LAMBDA p : p.text # "" /\ ~p.thought)
    IN  [i \in 1..Len(texts) |-> texts[i].text]

\* transformStreamResponse on a body of one data line: the line is
\* processed from the closure's initial state, the stream ends, and
\* message_start carries modelToUse.
transformStreamResponse(status, chunk, requestedModel, opts) ==
    LET modelToUse == IF requestedModel # ModelName.none
                      THEN requestedModel ELSE opts.defaultModel
        responseData == IF chunk.response # <<>> THEN chunk.response[1] ELSE chunk
        line == IF responseData.candidates = <<>>
                THEN Line("nocandidate", <<>>, 0, FALSE, 0)
                ELSE LET candidate == responseData.candidates[1]
                     IN  Line("candidate", candidate.parts, candidate.groundingChunks,
                              candidate.finishReason, responseData.usageMetadata)
        events == EnsureMessageClosed(CloseRemainingBlocks(
                      ProcessLine(StreamState, line))).out
    IN  Returned("stream", status, TRUE,
                 IF \E i \in DOMAIN events : events[i].type = "message_start"
                 THEN modelToUse ELSE ModelName.none,
                 events, <<>>)

\* transformJsonResponse: response.json() reads the body; without
\* data.response.candidates[0] the response itself is returned.
transformJsonResponse(status, chunk, requestedModel, opts) ==
    LET modelToUse == IF requestedModel # ModelName.none
                      THEN requestedModel ELSE opts.defaultModel
    IN  IF chunk.response = <<>> \/ chunk.response[1].candidates = <<>>
        THEN Returned("passthrough", status, TRUE, ModelName.none, <<>>, <<>>)
        ELSE Returned("json", status, TRUE, modelToUse, <<>>,
                      TextOf(chunk.response[1].candidates[1].parts))

\* transformWebSearchResponse: throws without result.response.candidates[0].
transformWebSearchResponse(status, chunk, model) ==
    IF chunk.response = <<>> \/ chunk.response[1].candidates = <<>>
    THEN [NoReply EXCEPT !.state = "threw", !.bodyUsed = TRUE]
    ELSE Returned("websearch", 200, TRUE, model, <<>>,
                  TextOf(chunk.response[1].candidates[1].parts))

\* transformResponseOut(response, context).
transformResponseOut(response, ctx, opts) ==
    LET requestedModel == IF ctx.requestModel # ModelName.none
                          THEN ctx.requestModel ELSE opts.defaultModel
    IN  IF ctx.isWebSearch /\ response.contentType = "application/json"
        THEN transformWebSearchResponse(response.status, response.chunk, requestedModel)
        ELSE IF response.contentType = "text/event-stream"
        THEN transformStreamResponse(response.status, response.chunk, requestedModel, opts)
        ELSE IF response.contentType = "application/json"
        THEN transformJsonResponse(response.status, response.chunk, requestedModel, opts)
        ELSE Returned("passthrough", response.status, FALSE, ModelName.none, <<>>, <<>>)

\* transformResponseOut runs on the upstream's response, its body in the
\* encoding e; the context carries the requestModel that transformRequestIn
\* returned ("set by transformRequestIn via router").
TransformResponseOut(e) ==
    /\ upstream # NoResponse
    /\ reply[e].state = "none"
    /\ reply' = [reply EXCEPT ![e] =
                    transformResponseOut(
                        [status |-> upstream.status,
                         contentType |-> upstream.contentType,
                         chunk |-> Encode(upstream.data, e)],
                        [requestModel |-> envelope.requestModel,
                         isWebSearch |-> req.isWebSearch],
                        options)]
    /\ UNCHANGED <<options, req, provider, context, route, envelope, upstream>>
    /\ UNCHANGED besideRoute

\* The transformer is constructed from the configuration; the call's
\* provider and context are those of the repository's test script.
RouteInit ==
    /\ options \in { AntigravityTransformer(given) : given \in OptionsGiven }
    /\ req \in Requests
    /\ provider = [project |-> "test-project-123"]
    /\ context = [requestId |-> "test-req-id-001"]
    /\ route = NoRoute
    /\ envelope = NoEnvelope
    /\ upstream = NoResponse
    /\ reply = [e \in Encodings |-> NoReply]
    /\ StreamIdle
    /\ TokenIdle
    /\ AuthIdle
    /\ SearchIdle
    /\ RequestIdle

RouteNext ==
    \/ Route
    \/ TransformRequestIn
    \/ Respond
    \/ \E e \in Encodings : TransformResponseOut(e)

RouteSpec == RouteInit /\ [][RouteNext]_vars

\* C22: the router selects the web-search pipeline for every request whose
\* tools list contains the web-search tool web_search_20250305, whatever the
\* declared model and the other tools, and for no request without it.
C22_WebSearchRoutedIffWebSearchTool ==
    route # NoRoute =>
        (route.provider = "antigravity-websearch"
            <=> \E i \in DOMAIN req.tools : req.tools[i].type = "web_search_20250305")

\* Routed to web search although the model is an opus model and the
\* web-search tool comes second among the tools.
C22_Witness ==
    /\ route.provider = "antigravity-websearch"
    /\ Len(req.tools) = 2
    /\ req.tools[2].type = "web_search_20250305"
    /\ req.thinking

\* C23: the upstream model written into the envelope is the mapping table's
\* entry for the requested model when there is one; otherwise the configured
\* opus target if the lower-cased name contains 'opus', else the haiku target
\* if it contains 'haiku', else the sonnet target.  The requested model is the
\* one the client sent, which the router recorded as originalModel.
C23_EnvelopeModelFromTableOrFamily ==
    envelope.state = "built" =>
        LET name == req.originalModel
            table == options.modelMapping
            lower == toLowerCase(name)
            configured(key, target) ==
                IF key \in DOMAIN table THEN table[key] ELSE target
        IN  envelope.body.model =
                IF name \in DOMAIN table THEN table[name]
                ELSE IF includes(lower, ModelName.opus)
                THEN configured(ModelName.opus45, ModelName.opusThinking)
                ELSE IF includes(lower, ModelName.haiku)
                THEN configured(ModelName.haiku45, ModelName.gemini3)
                ELSE configured(ModelName.sonnet45, ModelName.sonnetThinking)

\* C24: for a request that went through the router, transformRequestIn and
\* transformResponseOut, the model of the response (message_start's when
\* streaming, the body's when not) is the model the client requested.
C24_ResponseModelIsRequestedModel ==
    \A e \in Encodings :
        (reply[e].state = "returned" /\ reply[e].path \in { "stream", "json" }
            /\ reply[e].model # ModelName.none)
        => reply[e].model = req.originalModel

\* C25: an upstream response whose status is not 2xx is never transformed:
\* transformResponseOut returns it with its status and with its body neither
\* read nor replaced.
C25_ErrorResponsesRelayed ==
    \A e \in Encodings :
        (reply[e].state # "none" /\ upstream.status \notin 200..299)
        => /\ reply[e].state = "returned"
           /\ reply[e].path = "passthrough"
           /\ reply[e].status = upstream.status
           /\ ~reply[e].bodyUsed

\* C26: the response transformer gives the same output for a payload sent
\* as a bare object and for the same payload wrapped as {response: {...}},
\* on the streaming path and on the whole-body JSON path.
C26_WrappedAndBareAlike ==
    (reply["bare"].state # "none" /\ reply["wrapped"].state # "none")
    => reply["bare"] = reply["wrapped"]

\* C29: the envelope has the project of the provider passed to the call, the
\* request id of the call's context, and a request with a contents array.
C29_EnvelopeFromProviderAndContext ==
    envelope.state = "built"
    => /\ envelope.body.project = provider.project
       /\ envelope.body.requestId = context.requestId
       /\ DOMAIN envelope.body.request.contents = 1..Len(envelope.body.request.contents)

\* C27: once the client has cancelled the transformed stream, the transformer
\* reads nothing more from the upstream body and emits no further event.
C27_CancelStopsReadingAndEmitting ==
    [][cancelled => (inp' = inp /\ out' = out)]_vars

\* C28: the next upstream chunk is read only after the consumer has taken
\* the events the chunks before it produced.
C28_ReadsWaitForTheConsumer ==
    [][inp' # inp => taken = Len(out)]_vars

\* The closure's state after the lines ls, handled one after the other from
\* the state s.
RECURSIVE Replay(_, _)
Replay(s, ls) ==
    IF ls = <<>> THEN s ELSE Replay(ProcessLine(s, Head(ls)), Tail(ls))

\* C30: a data line whose payload is not valid JSON emits no event and
\* changes no stream state, and the lines before and after it are handled
\* as if it were absent: the closure's state and the events are those of the
\* same input with the malformed lines taken out.
C30_MalformedLinesAsIfAbsent ==
    LET initial == [messageStartSent |-> FALSE, thinkingBlockStarted |-> FALSE,
                    thinkingBlockIndex |-> -1, textBlockStarted |-> FALSE,
                    textBlockIndex |-> -1, currentBlockIndex |-> -1,
                    signatureSent |-> FALSE, hasThinkingContent |-> FALSE,
                    lastUsageMetadata |-> 0, webSearchResultsSent |-> FALSE,
                    out |-> <<>>, cancelled |-> FALSE, frozen |-> <<>>]
        parsed == SelectSeq(inp, LAMBDA l : l.kind # "malformed")
        s == Replay(initial, parsed)
    IN  IF pc = "closed"
        THEN out = EnsureMessageClosed(CloseRemainingBlocks(s)).out
        ELSE StreamState = s

\* A malformed line between two lines with candidates, the first of which
\* started the message.
C30_Witness ==
    /\ Len(inp) = 3
    /\ inp[1].kind = "candidate"
    /\ inp[2].kind = "malformed"
    /\ inp[3].kind = "candidate"
    /\ inp[3].parts # <<>>
    /\ Len(out) > 1

(***************************************************************************)
(* ChunkSpec: the upstream body as bytes, delivered in chunks of any size  *)
(***************************************************************************)
MaxWireLines == 3   \* lines of the upstream body

\* A stretch of the body's text that no chunk boundary falls into: the
\* prefix 'data: ', a line feed, a blank, or one half of the JSON text of a
\* payload.
Chr(c) == [c |-> c, of |-> <<>>]
Half(c, payload) == [c |-> c, of |-> <<payload>>]

\* 'data: <JSON of payload>\n'
DataLine(payload) ==
    <<Chr("data: "), Half("{", payload), Half("}", payload), Chr("\n")>>

\* The payloads of ChunkSpec's data lines.
WirePayloads ==
    { Line("candidate", p, 0, FALSE, 0) : p \in { <<ThoughtA>>, <<TextB>>, <<CallF>> } }
    \cup { Line("candidate", <<TextB>>, 0, TRUE, 0),
           Line("nocandidate", <<>>, 0, FALSE, 0) }

\* The lines of an upstream body, each ended by its line feed: data lines,
\* a data line whose JSON text is cut short, a data line of a blank, and the
\* empty line that separates SSE events.
WireLines ==
    { DataLine(p) : p \in WirePayloads }
    \cup { <<Chr("data: "), Half("{", Line("candidate", <<TextB>>, 0, FALSE, 0)), Chr("\n")>>,
           <<Chr("data: "), Chr(" "), Chr("\n")>>,
           <<Chr("\n")>> }

RECURSIVE Bodies(_)
Bodies(n) ==
    IF n = 0 THEN { <<>> }
    ELSE Bodies(n - 1) \cup { b \o l : b \in Bodies(n - 1), l \in WireLines }

\* text.split('\n')
RECURSIVE split(_)
split(text) ==
    LET feeds == { i \in 1..Len(text) : text[i] = Chr("\n") }
    IN  IF feeds = {} THEN <<text>>
        ELSE LET i == CHOOSE j \in feeds : \A k \in feeds : j <= k
             IN  <<SubSeq(text, 1, i - 1)>> \o split(SubSeq(text, i + 1, Len(text)))

\* str.trim()
RECURSIVE trim(_)
trim(str) ==
    IF str # <<>> /\ Head(str) = Chr(" ") THEN trim(Tail(str))
    ELSE IF str # <<>> /\ str[Len(str)] = Chr(" ") THEN trim(SubSeq(str, 1, Len(str) - 1))
    ELSE str

\* JSON.parse(chunkStr): the payload when the text is both halves of one
\* payload's JSON, and a SyntaxError otherwise.
JSONparse(chunkStr) ==
    IF /\ Len(chunkStr) = 2
       /\ chunkStr[1].c = "{" /\ chunkStr[2].c = "}"
       /\ chunkStr[1].of = chunkStr[2].of
    THEN chunkStr[1].of[1]
    ELSE Line("malformed", <<>>, 0, FALSE, 0)

\* The payloads of the lines the loop body handles: those that start with
\* 'data: ' and have text after it.
RECURSIVE DataOf(_)
DataOf(lines) ==
    IF lines = <<>> THEN <<>>
    ELSE LET line == Head(lines)
             chunkStr == trim(Tail(line))
         IN  IF line # <<>> /\ Head(line) = Chr("data: ") /\ chunkStr # <<>>
             THEN <<JSONparse(chunkStr)>> \o DataOf(Tail(lines))
             ELSE DataOf(Tail(lines))

\* for (const line of lines): each line in its own try/catch.
RECURSIVE HandleLines(_, _)
HandleLines(s, payloads) ==
    IF payloads = <<>> THEN s
    ELSE HandleLines(Caught(ProcessLine(s, Head(payloads))), Tail(payloads))

\* One turn of the read loop on a chunk: buffer += decode(value), split,
\* buffer = lines.pop() || '', and the lines handled in order.
onChunkNoBuffer(s, buf, value) ==
    LET lines == split(value)
        whole == SubSeq(lines, 1, Len(lines) - 1)
    IN  [state |-> HandleLines(s, DataOf(whole)),
         buffer |-> lines[Len(lines)],
         handled |-> DataOf(whole)]

onChunk(s, buf, value) ==
    LET lines == split(buf \o value)
        whole == SubSeq(lines, 1, Len(lines) - 1)
    IN  [state |-> HandleLines(s, DataOf(whole)),
         buffer |-> lines[Len(lines)],
         handled |-> DataOf(whole)]

\* reader.read() resolves with the next bytes of the body, however many.
ReadChunk ==
    /\ pc = "reading"
    /\ \E n \in bytesRead + 1..Len(responseBody) :
          LET r == onChunk(StreamState, buffer, SubSeq(responseBody, bytesRead + 1, n))
          IN  /\ SetStreamState(r.state)
              /\ buffer' = r.buffer
              /\ inp' = inp \o r.handled
              /\ bytesRead' = n
    /\ pc' = pc
    /\ UNCHANGED <<cancelled, taken, responseBody>>
    /\ UNCHANGED besideStream

\* The closure as transformStreamResponse initialises it, on a response
\* whose body is any sequence of at most MaxWireLines lines.
ChunkInit ==
    /\ messageStartSent = FALSE
    /\ thinkingBlockStarted = FALSE
    /\ thinkingBlockIndex = -1
    /\ textBlockStarted = FALSE
    /\ textBlockIndex = -1
    /\ currentBlockIndex = -1
    /\ signatureSent = FALSE
    /\ hasThinkingContent = FALSE
    /\ lastUsageMetadata = 0
    /\ webSearchResultsSent = FALSE
    /\ out = <<>>
    /\ inp = <<>>
    /\ pc = "reading"
    /\ cancelled = FALSE
    /\ taken = 0
    /\ buffer = <<>>
    /\ responseBody \in Bodies(MaxWireLines)
    /\ bytesRead = 0
    /\ TokenIdle
    /\ AuthIdle
    /\ SearchIdle
    /\ RouteIdle
    /\ RequestIdle

ChunkNext == ReadChunk \/ ReadDone

ChunkSpec == ChunkInit /\ [][ChunkNext]_vars

\* The closure as transformStreamResponse initialises it.
InitialStreamState ==
    [messageStartSent |-> FALSE, thinkingBlockStarted |-> FALSE,
     thinkingBlockIndex |-> -1, textBlockStarted |-> FALSE,
     textBlockIndex |-> -1, currentBlockIndex |-> -1,
     signatureSent |-> FALSE, hasThinkingContent |-> FALSE,
     lastUsageMetadata |-> 0, webSearchResultsSent |-> FALSE,
     out |-> <<>>, cancelled |-> FALSE, frozen |-> <<>>]

\* The closure's state once the bytes read so far have come in one chunk.
InOneChunk ==
    IF bytesRead = 0 THEN InitialStreamState
    ELSE onChunk(InitialStreamState, <<>>, SubSeq(responseBody, 1, bytesRead)).state

\* C31: the events emitted depend on the bytes of the upstream body only,
\* not on where the chunk boundaries fall, splits in the middle of a line
\* included: in whatever chunks the bytes read so far have come, the events
\* emitted are those of the same bytes read in one chunk, and those of the
\* closed response are those of the whole body read in one chunk.
C31_EventsIndependentOfChunking ==
    /\ pc = "reading" => out = InOneChunk.out
    /\ pc = "closed" => out = EnsureMessageClosed(CloseRemainingBlocks(InOneChunk)).out

\* A chunk has ended between the two halves of a data line's payload, after
\* an earlier line had its events emitted: the first half waits in buffer.
C31_Witness ==
    /\ pc = "reading"
    /\ out # <<>>
    /\ buffer # <<>>
    /\ buffer[Len(buffer)].c = "{"
    /\ bytesRead < Len(responseBody)

(***************************************************************************)
(* The web-search transformer: transformResponseOut,                       *)
(* transformStreamToWebSearch and transformWebSearchResponse               *)
(***************************************************************************)
MaxSearchLines == 2   \* data lines of a web-search response that streams

chunkSize == 6

\* Texts are tuples of characters; <<>> is '' and stands for an absent text.
SearchQueries == { <<>>, <<"c", "a", "t">> }

\* groundingMetadata: an optional field is a tuple of no or one value.
\* A grounding chunk says whether it has .web; a support lists its
\* groundingChunkIndices.
Grounding(queries, chunks, supports) ==
    [webSearchQueries |-> queries, groundingChunks |-> chunks,
     groundingSupports |-> supports]

Groundings ==
    { Grounding(<<<<"c", "a", "t">>>>, <<>>, <<>>),
      Grounding(<<>>, << <<>> >>, <<>>),
      Grounding(<<<<"c", "a", "t">>>>, << <<[web |-> TRUE]>> >>, << <<<<0>>>> >>),
      Grounding(<<>>, << <<[web |-> TRUE], [web |-> FALSE]>> >>, << <<<<0, 1, 2>>>> >>) }

\* candidates[0]: the texts of its parts, and its groundingMetadata if any.
Candidate(texts, grounding) == [parts |-> texts, groundingMetadata |-> grounding]

\* A parsed payload: wrapped as {response: {...}} or bare, with or without
\* candidates[0], usageMetadata (0 when absent).
Payload(wrapped, candidates, usage) ==
    [wrapped |-> wrapped, candidates |-> candidates, usageMetadata |-> usage, parses |-> TRUE]

\* The bodies of a JSON response.
SearchResults ==
    { Payload(w, <<Candidate(ts, g)>>, 0) :
          w \in BOOLEAN,
          ts \in { <<>>, << <<"a">> >>, << <<"a">>, <<"b">> >> },
          g \in { <<>> } \cup { <<gm>> : gm \in Groundings } }
    \cup { Payload(w, <<>>, 0) : w \in BOOLEAN }

\* The payloads of the data lines of a streamed response.
SearchChunks ==
    { Payload(FALSE, <<Candidate(<< <<"a">> >>, <<>>)>>, 0),
      Payload(FALSE, <<Candidate(<< <<"b">> >>, <<>>)>>, 1),
      Payload(TRUE, <<Candidate(<< <<"a">> >>, <<>>)>>, 1),
      Payload(FALSE, <<>>, 2),
      [Payload(FALSE, <<>>, 0) EXCEPT !.parses = FALSE] }
    \cup { Payload(FALSE, <<Candidate(<<>>, <<gm>>)>>, 0) : gm \in Groundings }

RECURSIVE SearchStreams(_)
SearchStreams(n) ==
    IF n = 0 THEN { <<>> }
    ELSE SearchStreams(n - 1) \cup { Append(s, c) : s \in SearchStreams(n - 1), c \in SearchChunks }

\* The responses transformResponseOut is given.
SearchResponses ==
    { [contentType |-> "application/json", result |-> <<r>>, lines |-> <<>>] : r \in SearchResults }
    \cup { [contentType |-> "text/event-stream", result |-> <<>>, lines |-> ls] :
              ls \in SearchStreams(MaxSearchLines) }
    \cup { [contentType |-> "text/html", result |-> <<>>, lines |-> <<>>] }

\* JSON.stringify({ query: searchQuery })
queryJsonOf(searchQuery) ==
    <<"{", "\"", "q", "u", "e", "r", "y", "\"", ":", "\"">> \o searchQuery \o <<"\"", "}">>

\* for (let i = 0; i < queryJson.length; i += chunkSize): the deltas
RECURSIVE inputJsonDeltas(_, _, _)
inputJsonDeltas(queryJson, i, blockIndex) ==
    IF i < Len(queryJson)
    THEN <<Ev("content_block_delta", blockIndex, "input_json_delta",
              SubSeq(queryJson, i + 1, IF i + chunkSize < Len(queryJson)
                                       THEN i + chunkSize ELSE Len(queryJson)))>>
         \o inputJsonDeltas(queryJson, i + chunkSize, blockIndex)
    ELSE <<>>

\* parts.filter(p => p.text).map(p => p.text).join('')
RECURSIVE join(_)
join(texts) == IF texts = <<>> THEN <<>> ELSE Head(texts) \o join(Tail(texts))

\* The citations_delta events of one support, for the chunks it names that
\* exist and have .web.
RECURSIVE citationsOf(_, _, _)
citationsOf(indices, chunks, blockIndex) ==
    IF indices = <<>> THEN <<>>
    ELSE LET chunkIndex == Head(indices)
         IN  (IF chunkIndex + 1 \in DOMAIN chunks /\ chunks[chunkIndex + 1].web
              THEN <<Ev("content_block_delta", blockIndex, "citations_delta", <<>>)>>
              ELSE <<>>)
             \o citationsOf(Tail(indices), chunks, blockIndex)

RECURSIVE citations(_, _, _)
citations(supports, chunks, blockIndex) ==
    IF supports = <<>> THEN <<>>
    ELSE citationsOf(Head(supports), chunks, blockIndex)
         \o citations(Tail(supports), chunks, blockIndex)

\* The server_tool_use block: start, the query's JSON in deltas, stop.
serverToolUseNoStop(blockIndex, searchQuery) ==
    <<Ev("content_block_start", blockIndex, "server_tool_use", <<>>)>>
    \o inputJsonDeltas(queryJsonOf(searchQuery), 0, blockIndex)

serverToolUse(blockIndex, searchQuery) ==
    <<Ev("content_block_start", blockIndex, "server_tool_use", <<>>)>>
    \o inputJsonDeltas(queryJsonOf(searchQuery), 0, blockIndex)
    \o <<Ev("content_block_stop", blockIndex, "", <<>>)>>

\* The events transformWebSearchResponse enqueues in start(controller).
\* candidates[0] is looked for under result.response and under result.
webSearchEvents(result, ctx) ==
    LET candidate == result.candidates
        groundingMetadata == IF candidate # <<>> THEN candidate[1].groundingMetadata ELSE <<>>
        searchQuery ==
            IF /\ groundingMetadata # <<>>
               /\ groundingMetadata[1].webSearchQueries # <<>>
               /\ groundingMetadata[1].webSearchQueries[1] # <<>>
            THEN groundingMetadata[1].webSearchQueries[1]
            ELSE ctx.query
        hasChunks == groundingMetadata # <<>> /\ groundingMetadata[1].groundingChunks # <<>>
        results ==
            IF hasChunks
            THEN <<Ev("content_block_start", 1, "web_search_tool_result", <<>>),
                   Ev("content_block_stop", 1, "", <<>>)>>
            ELSE <<>>
        blockIndex == IF hasChunks THEN 2 ELSE 1
        textContent == IF candidate # <<>> THEN join(candidate[1].parts) ELSE <<>>
        text ==
            IF textContent # <<>>
            THEN <<Ev("content_block_start", blockIndex, "text", <<>>),
                   Ev("content_block_delta", blockIndex, "text_delta", textContent)>>
                 \o (IF hasChunks /\ groundingMetadata[1].groundingSupports # <<>>
                     THEN citations(groundingMetadata[1].groundingSupports[1],
                                    groundingMetadata[1].groundingChunks[1], blockIndex)
                     ELSE <<>>)
                 \o <<Ev("content_block_stop", blockIndex, "", <<>>)>>
            ELSE <<>>
    IN  <<Ev("message_start", -1, "", <<>>)>>
        \o serverToolUse(0, searchQuery)
        \o results
        \o text
        \o <<Ev("message_delta", -1, "end_turn", <<>>), Ev("message_stop", -1, "", <<>>)>>

\* The drain loop's handling of one data line.  The candidate and the usage
\* are read from the chunk itself: a chunk wrapped in {response: ...} has
\* neither; a payload that does not parse is ignored.
collect(s, chunk) ==
    LET candidate == IF chunk.wrapped THEN <<>> ELSE chunk.candidates
    IN  IF ~chunk.parses THEN s
        ELSE [s EXCEPT
                !.allTextContent =
                    IF candidate # <<>> THEN @ \o join(candidate[1].parts) ELSE @,
                !.groundingMetadata =
                    IF candidate # <<>> /\ candidate[1].groundingMetadata # <<>>
                    THEN candidate[1].groundingMetadata ELSE @,
                !.usageMetadata =
                    IF ~chunk.wrapped /\ chunk.usageMetadata # 0
                    THEN chunk.usageMetadata ELSE @]

\* The result object transformStreamToWebSearch builds from what it collected.
collected(s) ==
    Payload(TRUE, <<Candidate(<<s.allTextContent>>, s.groundingMetadata)>>, s.usageMetadata)

\* transformWebSearchResponse(result, context): the events are enqueued while
\* the stream is constructed.
Rendered(s, result) ==
    [s EXCEPT !.pc = "done", !.result = <<result>>,
              !.out = webSearchEvents(result, s.context)]

\* transformResponseOut(response, context)
SearchResponseOut ==
    /\ search.pc = "start"
    /\ search' =
          IF search.response.contentType = "application/json"
          THEN Rendered(search, search.response.result[1])
          ELSE IF search.response.contentType = "text/event-stream"
          THEN [search EXCEPT !.pc = "draining"]
          ELSE [search EXCEPT !.pc = "passed"]
    /\ UNCHANGED besideSearch

\* reader.read() resolves with one data line.
SearchRead ==
    /\ search.pc = "draining"
    /\ search.read < Len(search.response.lines)
    /\ search' = [collect(search, search.response.lines[search.read + 1])
                    EXCEPT !.read = @ + 1]
    /\ UNCHANGED besideSearch

\* reader.read() resolves with done: the result is built and rendered.
SearchReadDone ==
    /\ search.pc = "draining"
    /\ search.read = Len(search.response.lines)
    /\ search' = Rendered(search, collected(search))
    /\ UNCHANGED besideSearch

\* reader.read() rejects: the error is logged, and what was collected so far
\* is rendered.
SearchReadError ==
    /\ search.pc = "draining"
    /\ search.read < Len(search.response.lines)
    /\ search' = Rendered(search, collected(search))
    /\ UNCHANGED besideSearch

SearchInit ==
    /\ search \in [pc : {"start"}, response : SearchResponses,
                   context : [query : { <<>>, <<"d", "o", "g", "s">> }],
                   read : {0}, allTextContent : { <<>> }, groundingMetadata : { <<>> },
                   usageMetadata : {0}, result : { <<>> }, out : { <<>> }]
    /\ StreamIdle
    /\ TokenIdle
    /\ AuthIdle
    /\ RouteIdle
    /\ RequestIdle

SearchNext == SearchResponseOut \/ SearchRead \/ SearchReadDone \/ SearchReadError

SearchSpec == SearchInit /\ [][SearchNext]_vars

(***************************************************************************)
(* Properties of the web-search pipeline (checked under SearchSpec)        *)
(***************************************************************************)
\* The positions of the events of one type in the rendered stream.
SearchPositions(type) == { k \in 1..Len(search.out) : search.out[k].type = type }

\* The position of the j-th event, counted from 0, among the positions P.
Nth(P, j) == CHOOSE p \in P : Cardinality({ k \in P : k <= p }) = j + 1

\* The partial_json of the deltas between two positions, put together.
RECURSIVE PartialJson(_, _)
PartialJson(from, to) ==
    IF from > to THEN <<>> ELSE search.out[from].val \o PartialJson(from + 1, to)

\* C32: the web-search pipeline's output is message_start, then a
\* server_tool_use block at index 0 whose input_json_delta chunks have at
\* most 6 characters and together are the JSON of {query}, then a
\* web_search_tool_result block when grounding chunks exist, then a text
\* block when the text is non-empty, then message_delta and message_stop;
\* the block indices are consecutive from 0 and each block is stopped before
\* the next is started.
C32_WebSearchOutputOrder ==
    search.pc = "done" =>
    LET o == search.out
        n == Len(o)
        starts == SearchPositions("content_block_start")
        stops == SearchPositions("content_block_stop")
        nb == Cardinality(starts)
        candidate == search.result[1].candidates
        grounding == IF candidate # <<>> THEN candidate[1].groundingMetadata ELSE <<>>
        chunksExist == /\ grounding # <<>>
                       /\ grounding[1].groundingChunks # <<>>
                       /\ grounding[1].groundingChunks[1] # <<>>
        textGiven == candidate # <<>> /\ \E i \in DOMAIN candidate[1].parts : candidate[1].parts[i] # <<>>
        query == IF grounding # <<>> /\ grounding[1].webSearchQueries # <<>>
                 THEN grounding[1].webSearchQueries[1] ELSE search.context.query
        kinds == [j \in 0..nb - 1 |-> o[Nth(starts, j)].kind]
    IN  /\ n >= 5
        /\ o[1].type = "message_start"
        /\ o[n - 1].type = "message_delta"
        /\ o[n].type = "message_stop"
        /\ nb >= 1
        /\ Cardinality(stops) = nb
        /\ Nth(starts, 0) = 2
        /\ Nth(stops, nb - 1) = n - 2
        /\ \A j \in 0..nb - 1 :
              /\ Nth(starts, j) < Nth(stops, j)
              /\ o[Nth(starts, j)].index = j
              /\ o[Nth(stops, j)].index = j
              /\ \A k \in Nth(starts, j) + 1..Nth(stops, j) - 1 :
                    o[k].type = "content_block_delta" /\ o[k].index = j
              /\ j < nb - 1 => Nth(starts, j + 1) = Nth(stops, j) + 1
        /\ kinds[0] = "server_tool_use"
        /\ \A k \in 3..Nth(stops, 0) - 1 :
              o[k].kind = "input_json_delta" /\ Len(o[k].val) <= 6
        /\ PartialJson(3, Nth(stops, 0) - 1)
              = <<"{", "\"", "q", "u", "e", "r", "y", "\"", ":", "\"">> \o query \o <<"\"", "}">>
        /\ \A j \in 1..nb - 1 :
              /\ kinds[j] \in {"web_search_tool_result", "text"}
              /\ kinds[j] = "web_search_tool_result" => j = 1
              /\ kinds[j] = "text" => j = nb - 1 /\ textGiven
        /\ chunksExist => nb >= 2 /\ kinds[1] = "web_search_tool_result"
        /\ textGiven => kinds[nb - 1] = "text"

\* A rendered response with all three blocks, whose query took three deltas.
C32_Witness ==
    /\ search.pc = "done"
    /\ Cardinality(SearchPositions("content_block_start")) = 3
    /\ Cardinality({ k \in SearchPositions("content_block_delta") :
                        search.out[k].kind = "input_json_delta" }) = 3
    /\ \E k \in SearchPositions("content_block_delta") : search.out[k].kind = "citations_delta"

\* What the data lines that arrived carry: their text parts in order, and
\* the groundingMetadata and usageMetadata of the last line that has one.
RECURSIVE TextCarried(_)
TextCarried(ls) ==
    IF ls = <<>> THEN <<>>
    ELSE (IF Head(ls).parses /\ Head(ls).candidates # <<>>
          THEN join(Head(ls).candidates[1].parts) ELSE <<>>)
         \o TextCarried(Tail(ls))

RECURSIVE GroundingCarried(_)
GroundingCarried(ls) ==
    IF ls = <<>> THEN <<>>
    ELSE LET l == ls[Len(ls)]
         IN  IF l.parses /\ l.candidates # <<>> /\ l.candidates[1].groundingMetadata # <<>>
             THEN l.candidates[1].groundingMetadata
             ELSE GroundingCarried(SubSeq(ls, 1, Len(ls) - 1))

RECURSIVE UsageCarried(_)
UsageCarried(ls) ==
    IF ls = <<>> THEN 0
    ELSE LET l == ls[Len(ls)]
         IN  IF l.parses /\ l.usageMetadata # 0 THEN l.usageMetadata
             ELSE UsageCarried(SubSeq(ls, 1, Len(ls) - 1))

\* C33: when the upstream reply is an SSE stream, nothing is emitted before
\* the stream has been read to its end, and the result that is rendered has
\* the text parts of all the lines that arrived, in order, and the
\* groundingMetadata and usageMetadata of the last line that carried them.
C33_DrainedThenRenderedFromAllLines ==
    search.response.contentType = "text/event-stream" =>
        /\ search.pc = "draining" => search.out = <<>>
        /\ search.pc = "done" =>
              LET arrived == SubSeq(search.response.lines, 1, search.read)
                  result == search.result[1]
              IN  /\ join(result.candidates[1].parts) = TextCarried(arrived)
                  /\ result.candidates[1].groundingMetadata = GroundingCarried(arrived)
                  /\ result.usageMetadata = UsageCarried(arrived)

(***************************************************************************)
(* Further properties of the stream transformer (checked under StreamSpec) *)
(***************************************************************************)
\* The block started at position k has its content_block_stop before
\* position q.
StoppedBefore(k, q) == \E p \in StopsOf(out[k].index) : k < p /\ p < q

\* C34: content blocks never overlap: no content_block_start is emitted
\* while a block started before it has not yet had its content_block_stop.
C34_BlocksNeverOverlap ==
    \A q \in Positions("content_block_start") :
        \A k \in Positions("content_block_start") : k < q => StoppedBefore(k, q)

\* The delta types a block of one type takes.
DeltaTypes(blockType) ==
    CASE blockType = "thinking" -> {"thinking_delta", "signature_delta"}
      [] blockType = "text" -> {"text_delta"}
      [] blockType = "tool_use" -> {"input_json_delta"}
      [] OTHER -> {}

\* C35: every content_block_delta carries the index of a block that has been
\* started and not yet stopped, and its delta type matches the block's type.
C35_DeltasInsideOpenBlockOfTheirType ==
    \A d \in Positions("content_block_delta") :
        \E k \in Positions("content_block_start") :
            /\ k < d
            /\ out[k].index = out[d].index
            /\ ~StoppedBefore(k, d)
            /\ out[d].kind \in DeltaTypes(out[k].kind)

\* Deltas of every type have been emitted: for a thinking block with its
\* signature, for a text block and for a tool_use block.
C35_Witness ==
    \A type \in {"thinking_delta", "signature_delta", "text_delta", "input_json_delta"} :
        \E d \in Positions("content_block_delta") : out[d].kind = type

\* C36: once message_stop has been emitted, no further event is emitted in
\* that response, whatever the upstream still delivers.
C36_NothingAfterMessageStop ==
    [][Positions("message_stop") # {} => out' = out]_vars

(***************************************************************************)
(* Further properties of the authorization flow (checked under AuthSpec)   *)
(***************************************************************************)
\* C37: the authorization flow writes the credential file only in a run
\* whose reported outcome is success: a step in which the answer to a token
\* exchange is handled and the file changes leaves the run reported as a
\* success, so a run that has reported a failure never writes afterwards.
C37_FlowWritesOnlyOnSuccess ==
    [][(auth'.exchanges < auth.exchanges /\ store' # store)
          => auth'.result = "success"]_vars

(***************************************************************************)
(* Further properties of the request pipeline (checked under RouteSpec)    *)
(***************************************************************************)
\* C38: for a request without the web-search tool, handled with the default
\* mapping table, the upstream model the router returns is the model that
\* transformRequestIn writes into the envelope.
C38_RouterAndEnvelopeAgreeOnModel ==
    (envelope.state = "built" /\ options.modelMapping = defaultModelMapping)
        => envelope.body.model = route.model

(***************************************************************************)
(* Further properties of token handling (checked under TokenSpec)          *)
(***************************************************************************)
\* The credential file is as a successful authorization flow wrote it (no
\* refresh has written to it since), and the expiry the flow stored is more
\* than five minutes ahead.
FlowStoredFreshToken ==
    /\ store.exists
    /\ store.refresh_token # ""
    /\ store.access_token # ""
    /\ store.token_expiry = 0
    /\ store.expiry_date - now > ExpiryThreshold

\* C39: after the authorization flow has stored an access token whose expiry
\* is more than 5 minutes ahead, the next getFreshAccessToken call of the
\* Antigravity transformer returns that token without a refresh call.
C39_FlowTokenUsedWithoutRefresh ==
    [][\A c \in Callers :
          (plugin = "antigravity" /\ FlowStoredFreshToken
              /\ call[c].pc = "idle" /\ call'[c].pc # "idle")
          => call'[c] = DoneCached(store.access_token)]_vars

=============================================================================
